---- MODULE Spec2Model ----
(***************************************************************************)
(* Model of the WhatsApp multimodal bot: the orchestrator (wa-process),    *)
(* the transcription worker (wa-audio-transcribe), the transcription       *)
(* callback (wa-transcribe-finish), the text-to-speech worker (wa-tts)     *)
(* and the ingestion webhook (inbound-webhook).                            *)
(*                                                                         *)
(* Text is a sequence of characters; a character is a string naming one    *)
(* code point.  None is Python's None / an absent dictionary key, written   *)
(* as a one-element sequence that is no text.                              *)
(***************************************************************************)
EXTENDS Integers, Sequences, FiniteSets, TLC

VARIABLES
    jb,      \* SpecJob: one application of the job-name pair
    vi,      \* SpecVoice: one call of _classify_voice_intent
    st,      \* SpecStream: one call of _invoke_agent
    cfg,     \* deployment: which optional workers are configured; fault mode
    inbox,   \* asynchronous invocations of wa-process not yet started
    run,     \* the wa-process invocation in progress
    tq,      \* asynchronous invocations of wa-audio-transcribe not yet started
    jobs,    \* transcription jobs known to the transcription service
    notes,   \* object-created notifications not yet handed to the callback
    cb,      \* the wa-transcribe-finish invocation in progress
    outbox,  \* asynchronous invocations of wa-send not yet started
    posted,  \* what the world has produced so far: messages posted to the
             \* webhook, other objects created in the output bucket
    wh,      \* SpecPost: one POST handled by inbound-webhook
    ws,      \* SpecSend: one request handled by wa-send
    tl,      \* SpecTool: one request handled by a vision or image sub-call
    np,      \* SpecNames: two correlation pairs and their job names
    tk,      \* SpecToken: the token cache of one process and its callers
    dc       \* SpecRoute: two events and the decisions of wa-process

None == <<"<None>">>

fnVars == <<wh, ws, tl, np, tk, dc>>
pureVars == <<jb, vi, st, wh, ws, tl, np, tk, dc>>
sysVars == <<cfg, inbox, run, tq, jobs, notes, cb, outbox, posted>>
vars == <<jb, vi, st, wh, ws, tl, np, tk, dc,
         cfg, inbox, run, tq, jobs, notes, cb, outbox, posted>>

\* the system part of the state in the specifications of single functions
SysOff ==
    /\ cfg = None /\ inbox = None /\ run = None /\ tq = None /\ jobs = None
    /\ notes = None /\ cb = None /\ outbox = None /\ posted = None

\* the variables of the other specifications of single functions
FnOff == wh = None /\ ws = None /\ tl = None /\ np = None /\ tk = None /\ dc = None

\* Python truthiness of a text-or-None value
Truthy(x) == x # None /\ x # <<>>

\* ------------------------------------------------------------------------
\* Characters and text helpers
\* ------------------------------------------------------------------------
Digits == {"0", "1", "2", "3", "4", "5", "6", "7", "8", "9"}

Lower == {"a", "b", "c", "d", "e", "f", "g", "h", "i", "j", "k", "l", "m",
          "n", "o", "p", "q", "r", "s", "t", "u", "v", "w", "x", "y", "z"}

Upper == {"A", "B", "C", "D", "E", "F", "G", "H", "I", "J", "K", "L", "M",
          "N", "O", "P", "Q", "R", "S", "T", "U", "V", "W", "X", "Y", "Z"}

\* characters str.strip() removes
Whitespace == {" ", "\n", "\t"}

\* the code point U+2705 (white heavy check mark)
CheckMark == "U+2705"

\* s[:n]
Take(s, n) == IF Len(s) <= n THEN s ELSE SubSeq(s, 1, n)

\* all texts over alphabet A of length at most n
TextsUpTo(A, n) == UNION {[1..k -> A] : k \in 0..n}

\* n copies of character c
Rep(c, n) == [i \in 1..n |-> c]

RECURSIVE LStrip(_)
LStrip(s) == IF s # <<>> /\ Head(s) \in Whitespace THEN LStrip(Tail(s)) ELSE s

RECURSIVE RStrip(_)
RStrip(s) ==
    IF s # <<>> /\ s[Len(s)] \in Whitespace
    THEN RStrip(SubSeq(s, 1, Len(s) - 1))
    ELSE s

\* str.strip()
Strip(s) == RStrip(LStrip(s))

\* f"{x}" of a value that is a text or None
Fmt(x) == IF x = None THEN <<"N", "o", "n", "e">> ELSE x

\* ------------------------------------------------------------------------
\* Job naming (wa-audio-transcribe) and its reverse (wa-transcribe-finish)
\* ------------------------------------------------------------------------
\* clean[:200]
JOB_NAME_MAX == 200

\* [a-zA-Z0-9-]
JobNameChars == Lower \cup Upper \cup Digits \cup {"-"}

\* [A-Za-z0-9_-]
MessageIdChars == Lower \cup Upper \cup Digits \cup {"_", "-"}

\* re.sub(r"[^a-zA-Z0-9-]", "-", base)
Sanitize(s) == [i \in 1..Len(s) |-> IF s[i] \in JobNameChars THEN s[i] ELSE "-"]

\* _job_name cutting one character early
JobNameCutEarly(from_id, message_id) ==
    LET base == <<"w", "a", "-">> \o Fmt(from_id) \o <<"-">> \o Fmt(message_id)
    IN  Take(Sanitize(base), JOB_NAME_MAX - 1)

\* a _job_name without the hyphen between the two parts
JobNameNoHyphen(from_id, message_id) ==
    LET base == <<"w", "a", "-">> \o Fmt(from_id) \o Fmt(message_id)
    IN  Take(Sanitize(base), JOB_NAME_MAX)

_job_name(from_id, message_id) ==
    LET base == <<"w", "a", "-">> \o Fmt(from_id) \o <<"-">> \o Fmt(message_id)
    IN  Take(Sanitize(base), JOB_NAME_MAX)

\* length of the longest prefix of s made of characters of C
RECURSIVE RunLen(_, _)
RunLen(s, C) == IF s # <<>> /\ Head(s) \in C THEN 1 + RunLen(Tail(s), C) ELSE 0

\* a name check that only looks at the prefix "wa-"
ExtractIdsLenient(job_name) ==
    IF Len(job_name) >= 3 /\ SubSeq(job_name, 1, 3) = <<"w", "a", "-">>
    THEN <<SubSeq(job_name, 4, Len(job_name)), <<"x">>>>
    ELSE <<None, None>>

\* JOBNAME_RE.match: ^wa-([0-9]+)-([A-Za-z0-9_-]+)$ ; "$" also matches just
\* before one trailing newline.  The result is <<group1, group2>> or
\* <<None, None>>.
_extract_ids(job_name) ==
    LET nm   == IF job_name # <<>> /\ job_name[Len(job_name)] = "\n"
                THEN SubSeq(job_name, 1, Len(job_name) - 1)
                ELSE job_name
        rest == SubSeq(nm, 4, Len(nm))
        d    == RunLen(rest, Digits)
        g2   == SubSeq(rest, d + 2, Len(rest))
    IN  IF /\ Len(nm) >= 3
           /\ SubSeq(nm, 1, 3) = <<"w", "a", "-">>
           /\ d >= 1
           /\ Len(rest) >= d + 2
           /\ rest[d + 1] = "-"
           /\ \A i \in 1..Len(g2) : g2[i] \in MessageIdChars
        THEN <<SubSeq(rest, 1, d), g2>>
        ELSE <<None, None>>

\* ------------------------------------------------------------------------
\* Specification SpecJob: the job-name pair applied to bounded inputs
\* ------------------------------------------------------------------------
MaxKeyLen == 2
MaxIdLen == 2

KeyAlphabet == {"5", "a", "-"}
IdAlphabet == {"7", "M", "-", "_", "."}

\* message ids are a short tail after a run of filler, so that names on both
\* sides of JOB_NAME_MAX occur
PadLens == {0, JOB_NAME_MAX - 6}

JobInit ==
    /\ jb \in {[pc |-> "named", from_id |-> k, message_id |-> Rep("x", p) \o m,
                job |-> None, ids |-> <<None, None>>] :
                  k \in TextsUpTo(KeyAlphabet, MaxKeyLen),
                  m \in TextsUpTo(IdAlphabet, MaxIdLen),
                  p \in PadLens}
    /\ vi = None
    /\ st = None
    /\ FnOff
    /\ SysOff

JobBuild ==
    /\ jb.pc = "named"
    /\ jb' = [jb EXCEPT !.pc = "built",
                        !.job = _job_name(jb.from_id, jb.message_id)]
    /\ UNCHANGED <<vi, st>> /\ UNCHANGED fnVars /\ UNCHANGED sysVars

JobReverse ==
    /\ jb.pc = "built"
    /\ jb' = [jb EXCEPT !.pc = "reversed", !.ids = _extract_ids(jb.job)]
    /\ UNCHANGED <<vi, st>> /\ UNCHANGED fnVars /\ UNCHANGED sysVars

JobNext == JobBuild \/ JobReverse

SpecJob == JobInit /\ [][JobNext]_vars

AllIn(s, C) == \A i \in 1..Len(s) : s[i] \in C

\* C6 as stated: every pair over [A-Za-z0-9-] is recovered exactly from its
\* job name.
C6_RoundTripAllowedSet ==
    (jb.pc = "reversed" /\ AllIn(jb.from_id, JobNameChars)
                        /\ AllIn(jb.message_id, JobNameChars))
        => jb.ids = <<jb.from_id, jb.message_id>>

\* the pairs the naming scheme can carry: a non-empty all-digit
\* conversation key, a non-empty message id over [A-Za-z0-9-], and a name
\* "wa-<key>-<id>" of at most JOB_NAME_MAX characters
JobPairFits ==
    /\ jb.from_id # <<>> /\ AllIn(jb.from_id, Digits)
    /\ jb.message_id # <<>> /\ AllIn(jb.message_id, JobNameChars)
    /\ 3 + Len(jb.from_id) + 1 + Len(jb.message_id) <= JOB_NAME_MAX

\* C6 (amended): for every pair with a non-empty all-digit conversation key
\* and a non-empty message id over [A-Za-z0-9-] whose name fits in
\* JOB_NAME_MAX characters, _extract_ids(_job_name(key, id)) = (key, id).
C6_RoundTripDigitsKey ==
    (jb.pc = "reversed" /\ JobPairFits) => jb.ids = <<jb.from_id, jb.message_id>>

\* a recovered pair whose name is exactly JOB_NAME_MAX characters long
C6_Witness ==
    /\ jb.pc = "reversed" /\ JobPairFits
    /\ Len(jb.job) = JOB_NAME_MAX
    /\ jb.ids = <<jb.from_id, jb.message_id>>

\* ------------------------------------------------------------------------
\* Streaming response assembly (wa-process, _invoke_agent)
\* ------------------------------------------------------------------------
\* only the first LOG_TRACE_MAX trace summaries are logged
LOG_TRACE_MAX == 10

\* a byte that is no valid UTF-8 on its own
BadByte == "\\xFF"

\* bytes.decode("utf-8", errors="ignore") of a sequence of bytes, each either
\* one ASCII character or a BadByte
RECURSIVE DecodeIgnore(_)
DecodeIgnore(b) ==
    IF b = <<>> THEN <<>>
    ELSE IF Head(b) = BadByte THEN DecodeIgnore(Tail(b))
         ELSE <<Head(b)>> \o DecodeIgnore(Tail(b))

\* the text a chunk event contributes: ev["chunk"].get("bytes") decoded when
\* it is bytes, taken as it is when it is str; nothing when absent or empty
ChunkPiece(ev) ==
    IF ev.form = "bytes" THEN DecodeIgnore(ev.data)
    ELSE IF ev.form = "str" THEN ev.data
    ELSE <<>>

\* "".join(parts)
RECURSIVE Join(_)
Join(parts) == IF parts = <<>> THEN <<>> ELSE Head(parts) \o Join(Tail(parts))

AccInit == [text_parts |-> <<>>, chunk_count |-> 0, trace_summaries |-> <<>>,
            logged |-> 0, raised |-> FALSE]

\* a loop body that puts a new piece in front of the earlier ones
ConsumeEventPrepend(acc, ev) ==
    IF ev.type = "chunk"
    THEN IF ChunkPiece(ev) # <<>>
         THEN [acc EXCEPT !.text_parts = <<ChunkPiece(ev)>> \o @,
                          !.chunk_count = @ + 1]
         ELSE acc
    ELSE IF ev.type = "trace"
    THEN [acc EXCEPT !.trace_summaries = Append(@, ev.data),
                     !.logged = IF Len(acc.trace_summaries) + 1 <= LOG_TRACE_MAX
                                THEN @ + 1 ELSE @]
    ELSE IF ev.type = "error"
    THEN [acc EXCEPT !.raised = TRUE]
    ELSE acc

\* one iteration of "for ev in completion_stream"
ConsumeEvent(acc, ev) ==
    IF ev.type = "chunk"
    THEN IF ChunkPiece(ev) # <<>>
         THEN [acc EXCEPT !.text_parts = Append(@, ChunkPiece(ev)),
                          !.chunk_count = @ + 1]
         ELSE acc
    ELSE IF ev.type = "trace"
    THEN [acc EXCEPT !.trace_summaries = Append(@, ev.data),
                     !.logged = IF Len(acc.trace_summaries) + 1 <= LOG_TRACE_MAX
                                THEN @ + 1 ELSE @]
    ELSE IF ev.type = "error"
    THEN [acc EXCEPT !.raised = TRUE]
    ELSE acc

\* the value _invoke_agent returns once the stream is exhausted
AgentResult(acc) ==
    [status |-> "ok", text |-> Strip(Join(acc.text_parts)),
     chunk_count |-> acc.chunk_count, trace_events |-> acc.trace_summaries]

\* return value when the response has no "completion"
AgentNoStream ==
    [status |-> "ok", text |-> <<>>, chunk_count |-> 0, trace_events |-> <<>>]

\* an exception leaving _invoke_agent
AgentRaised ==
    [status |-> "raised", text |-> <<>>, chunk_count |-> 0, trace_events |-> <<>>]

\* ------------------------------------------------------------------------
\* Specification SpecStream: _invoke_agent over bounded event sequences
\* ------------------------------------------------------------------------
MaxStreamLen == 3

ChunkEv(form, data) == [type |-> "chunk", form |-> form, data |-> data]
OtherEv(type, tag) == [type |-> type, form |-> "none", data |-> <<tag>>]

StreamAlphabet ==
    { ChunkEv("str", <<"a">>), ChunkEv("str", <<" ">>), ChunkEv("str", <<"b", " ">>),
      ChunkEv("bytes", <<"c", BadByte>>), ChunkEv("bytes", <<BadByte>>),
      ChunkEv("str", <<>>), ChunkEv("none", <<>>),
      OtherEv("trace", "t"), OtherEv("guardrail", "g"), OtherEv("other", "o"),
      OtherEv("error", "e") }

\* how invoke_agent answers: it raises ClientError, answers without a
\* "completion" stream, or answers with a stream
OpenOutcomes == {"client_error", "no_completion", "stream"}

\* streams are a short tail after a run of trace events, so that streams
\* with fewer and with more than LOG_TRACE_MAX trace events occur
TracePads == {0, LOG_TRACE_MAX - 1}

StreamInputs ==
    { Rep(OtherEv("trace", "t"), p) \o evs :
        p \in TracePads, evs \in TextsUpTo(StreamAlphabet, MaxStreamLen) }

StreamInit ==
    /\ st \in {[pc |-> "invoke", open |-> o, input |-> evs, rest |-> evs,
                acc |-> AccInit, result |-> AgentNoStream] :
                  o \in OpenOutcomes, evs \in StreamInputs}
    /\ jb = None
    /\ vi = None
    /\ FnOff
    /\ SysOff

\* bedrock_agent.invoke_agent(...) and resp.get("completion")
StreamOpen ==
    /\ st.pc = "invoke"
    /\ st' = IF st.open = "client_error"
             THEN [st EXCEPT !.pc = "returned", !.result = AgentRaised]
             ELSE IF st.open = "no_completion"
             THEN [st EXCEPT !.pc = "returned", !.result = AgentNoStream]
             ELSE [st EXCEPT !.pc = "loop"]
    /\ UNCHANGED <<jb, vi>> /\ UNCHANGED fnVars /\ UNCHANGED sysVars

\* one event of the completion stream
StreamEvent ==
    /\ st.pc = "loop"
    /\ st.rest # <<>>
    /\ LET acc == ConsumeEvent(st.acc, Head(st.rest))
       IN  st' = IF acc.raised
                 THEN [st EXCEPT !.pc = "returned", !.acc = acc,
                                 !.result = AgentRaised]
                 ELSE [st EXCEPT !.acc = acc, !.rest = Tail(st.rest)]
    /\ UNCHANGED <<jb, vi>> /\ UNCHANGED fnVars /\ UNCHANGED sysVars

\* the stream is closed: join, strip, return
StreamClose ==
    /\ st.pc = "loop"
    /\ st.rest = <<>>
    /\ st' = [st EXCEPT !.pc = "returned", !.result = AgentResult(st.acc)]
    /\ UNCHANGED <<jb, vi>> /\ UNCHANGED fnVars /\ UNCHANGED sysVars

StreamNext == StreamOpen \/ StreamEvent \/ StreamClose

SpecStream == StreamInit /\ [][StreamNext]_vars

\* the strings s1..sN of the chunk events of a stream, in stream order
RECURSIVE ChunkStrings(_)
ChunkStrings(evs) ==
    IF evs = <<>> THEN <<>>
    ELSE IF Head(evs).type = "chunk"
         THEN <<ChunkPiece(Head(evs))>> \o ChunkStrings(Tail(evs))
         ELSE ChunkStrings(Tail(evs))

StreamCompleted ==
    /\ st.pc = "returned" /\ st.open = "stream"
    /\ \A i \in 1..Len(st.input) : st.input[i].type # "error"

\* C8 as stated: the returned text is the concatenation s1..sN, unaltered.
C8_FinalTextIsConcat ==
    StreamCompleted => st.result.text = Join(ChunkStrings(st.input))

\* C8 (amended): the returned text is the concatenation s1..sN in stream
\* order with leading and trailing whitespace of the whole removed,
\* whatever trace, guardrail and unknown events are interleaved.
C8_FinalTextIsStrippedConcat ==
    StreamCompleted => st.result.text = Strip(Join(ChunkStrings(st.input)))

\* two different chunks around another event, assembled in order
C8_Witness ==
    /\ StreamCompleted
    /\ Len(st.input) = 3
    /\ st.input[1] = ChunkEv("str", <<"a">>)
    /\ st.input[2].type = "trace"
    /\ st.input[3] = ChunkEv("bytes", <<"c", BadByte>>)
    /\ st.result.text = <<"a", "c">>

\* ------------------------------------------------------------------------
\* Voice-intent decision (wa-process, _classify_voice_intent)
\* ------------------------------------------------------------------------
\* JSON text is a sequence of tokens: punctuation, literals, a number, two
\* string literals, whitespace and a token that belongs to no JSON value.
StrVoice == "\"voice\""
StrTrue == "\"true\""
Junk == "junk"

JsonStrings == {StrVoice, StrTrue}

ScalarKind(tok) ==
    CASE tok = "true" -> "true"
      [] tok = "false" -> "false"
      [] tok = "null" -> "null"
      [] tok = "1" -> "number"
      [] tok \in JsonStrings -> "string"
      [] OTHER -> "none"

JsonFail == [ok |-> FALSE, kind |-> "error", voice |-> "absent", rest |-> <<>>]

JsonOk(kind, voice, rest) == [ok |-> TRUE, kind |-> kind, voice |-> voice, rest |-> rest]

\* A JSON decoder.  kind is the type of the decoded value and, for an
\* object, voice is the type of the value under the key "voice" ("absent"
\* when the object has no such key; the last duplicate wins).
RECURSIVE ParseValue(_)
RECURSIVE ParseElems(_)
RECURSIVE ParseMembers(_, _)

ParseValue(t0) ==
    LET t == LStrip(t0)
    IN  IF t = <<>> THEN JsonFail
        ELSE IF ScalarKind(Head(t)) # "none"
        THEN JsonOk(ScalarKind(Head(t)), "absent", Tail(t))
        ELSE IF Head(t) = "["
        THEN LET u == LStrip(Tail(t))
             IN  IF u # <<>> /\ Head(u) = "]"
                 THEN JsonOk("array", "absent", Tail(u))
                 ELSE ParseElems(u)
        ELSE IF Head(t) = "{"
        THEN LET u == LStrip(Tail(t))
             IN  IF u # <<>> /\ Head(u) = "}"
                 THEN JsonOk("object", "absent", Tail(u))
                 ELSE ParseMembers(u, "absent")
        ELSE JsonFail

ParseElems(t) ==
    LET v == ParseValue(t)
        u == LStrip(v.rest)
    IN  IF ~v.ok \/ u = <<>> THEN JsonFail
        ELSE IF Head(u) = "]" THEN JsonOk("array", "absent", Tail(u))
        ELSE IF Head(u) = "," THEN ParseElems(Tail(u))
        ELSE JsonFail

ParseMembers(t0, voice) ==
    LET t == LStrip(t0)
    IN  IF t = <<>> \/ Head(t) \notin JsonStrings THEN JsonFail
        ELSE LET u == LStrip(Tail(t))
             IN  IF u = <<>> \/ Head(u) # ":" THEN JsonFail
                 ELSE LET v  == ParseValue(Tail(u))
                          nv == IF Head(t) = StrVoice THEN v.kind ELSE voice
                          w  == LStrip(v.rest)
                      IN  IF ~v.ok \/ w = <<>> THEN JsonFail
                          ELSE IF Head(w) = "}" THEN JsonOk("object", nv, Tail(w))
                          ELSE IF Head(w) = "," THEN ParseMembers(Tail(w), nv)
                          ELSE JsonFail

\* json.loads(raw): one value, then only whitespace
json_loads(raw) ==
    LET v == ParseValue(raw)
    IN  IF v.ok /\ LStrip(v.rest) = <<>> THEN v ELSE JsonFail

\* a test of truthiness: bool(obj.get("voice"))
VoiceTruthy(obj) ==
    obj.kind = "object" /\ obj.voice \in {"true", "number", "string"}

\* obj.get("voice") is True, for a decoded value that has .get
VoiceIsTrue(obj) == obj.kind = "object" /\ obj.voice = "true"

\* text_chunks = [c.get("text") for c in content if isinstance(c, dict) and
\* c.get("text")]; the first of them, or ""
FirstText(content) ==
    LET idx == {i \in 1..Len(content) :
                   content[i].isdict /\ Truthy(content[i].text)}
    IN  IF idx = {} THEN <<>>
        ELSE content[CHOOSE i \in idx : \A j \in idx : i <= j].text

\* The part of _classify_voice_intent inside try: from the outcome of
\* bedrock_rt.converse to a returned boolean or a raised exception.
ClassifyTry(outcome) ==
    IF outcome.kind \in {"backend_error", "timeout"}
    THEN [raised |-> TRUE, value |-> FALSE]
    ELSE IF outcome.kind = "bad_shape"
    THEN [raised |-> TRUE, value |-> FALSE]
    ELSE LET raw == Strip(FirstText(outcome.content))
             obj == IF raw # <<>> THEN json_loads(raw)
                    ELSE JsonOk("object", "absent", <<>>)
         IN  IF ~obj.ok THEN [raised |-> TRUE, value |-> FALSE]
             ELSE IF obj.kind # "object" THEN [raised |-> TRUE, value |-> FALSE]
             ELSE [raised |-> FALSE, value |-> VoiceIsTrue(obj)]

\* except Exception: return False
ClassifyExcept(r) ==
    IF r.raised THEN [raised |-> FALSE, value |-> FALSE] ELSE r

\* ------------------------------------------------------------------------
\* Specification SpecVoice: _classify_voice_intent over bounded classifier
\* outcomes
\* ------------------------------------------------------------------------
MaxFuzzLen == 1

FuzzAlphabet == {" ", Junk, "{", "true", ","}

VoiceTrueDoc == <<"{", StrVoice, ":", "true", "}">>

JsonCores ==
    { <<>>, VoiceTrueDoc,
      <<"{", StrVoice, ":", " ", "false", "}">>,
      <<"{", StrVoice, ":", "1", "}">>,
      <<"{", StrVoice, ":", StrTrue, "}">>,
      <<"{", StrVoice, ":", "null", "}">>,
      <<"{", StrTrue, ":", "true", "}">>,
      <<"{", StrVoice, ":", "true", ",", StrVoice, ":", "false", "}">>,
      <<"{", StrVoice, ":", "false", ",", StrVoice, ":", "true", "}">>,
      <<"{", StrVoice, ":", "[", "true", "]", "}">>,
      <<"{", StrVoice, ":", "{", StrVoice, ":", "true", "}", "}">>,
      <<"{", StrVoice, "true", "}">>,
      <<"{", StrVoice, ":", "true">>,
      <<"[", "true", "]">>, <<"[", VoiceTrueDoc[1], "]">>,
      <<"true">>, <<"null">>, <<"1">>, <<StrVoice>>, <<"{", "}">> }

RawOutputs ==
    {pre \o core \o post : pre \in TextsUpTo(FuzzAlphabet, MaxFuzzLen),
                           core \in JsonCores,
                           post \in TextsUpTo(FuzzAlphabet, MaxFuzzLen)}

TextItem(t) == [isdict |-> TRUE, text |-> t]
NoTextItem == [isdict |-> TRUE, text |-> None]
NonDictItem == [isdict |-> FALSE, text |-> None]

ConverseOutcomes ==
    { [kind |-> k, content |-> <<>>] : k \in {"backend_error", "timeout", "bad_shape"} }
    \cup
    { [kind |-> "response", content |-> pre \o c] :
          pre \in {<<>>, <<NoTextItem>>, <<NonDictItem>>},
          c \in {<<>>} \cup {<<TextItem(r)>> : r \in RawOutputs}
                       \cup {<<TextItem(r), TextItem(VoiceTrueDoc)>> : r \in RawOutputs} }

UserTexts == {None, <<>>, <<" ">>, <<"h", "i">>}

VoiceInit ==
    /\ vi \in {[pc |-> "entry", user_text |-> u, outcome |-> o, called |-> 0,
                raised |-> FALSE, value |-> FALSE] :
                  u \in UserTexts, o \in ConverseOutcomes}
    /\ jb = None
    /\ st = None
    /\ FnOff
    /\ SysOff

\* txt = (user_text or "").strip(); if not txt: return False
VoiceEntry ==
    /\ vi.pc = "entry"
    /\ vi' = IF Strip(IF Truthy(vi.user_text) THEN vi.user_text ELSE <<>>) = <<>>
             THEN [vi EXCEPT !.pc = "returned", !.value = FALSE]
             ELSE [vi EXCEPT !.pc = "converse"]
    /\ UNCHANGED <<jb, st>> /\ UNCHANGED fnVars /\ UNCHANGED sysVars

\* the try block and its except clause
VoiceClassify ==
    /\ vi.pc = "converse"
    /\ LET r == ClassifyExcept(ClassifyTry(vi.outcome))
       IN  vi' = [vi EXCEPT !.pc = "returned", !.called = @ + 1,
                            !.raised = r.raised, !.value = r.value]
    /\ UNCHANGED <<jb, st>> /\ UNCHANGED fnVars /\ UNCHANGED sysVars

VoiceNext == VoiceEntry \/ VoiceClassify

SpecVoice == VoiceInit /\ [][VoiceNext]_vars

\* the classifier output is an object whose "voice" is the boolean true:
\* stated on the tokens, for outputs that are one flat object
FlatVoiceTrue(raw) ==
    LET t == Strip(raw)
    IN  /\ Len(t) >= 5
        /\ t[1] = "{" /\ t[Len(t)] = "}"
        /\ \E i \in 2..(Len(t) - 3) :
              /\ t[i] = StrVoice /\ t[i + 1] = ":" /\ t[i + 2] = "true"
              /\ \A j \in (i + 3)..(Len(t) - 1) : t[j] # StrVoice

\* C5: the decision never raises; it is false after a backend error, a
\* timeout, an empty or malformed output, JSON that is no object, and an
\* object whose "voice" is not the boolean true; it is true only for an
\* output that decodes to an object with "voice": true.
C5_VoiceIntentFailClosed ==
    vi.pc = "returned" =>
        /\ ~vi.raised
        /\ vi.outcome.kind # "response" => ~vi.value
        /\ vi.value =>
              /\ vi.called = 1
              /\ json_loads(Strip(FirstText(vi.outcome.content))).kind = "object"
              /\ FlatVoiceTrue(FirstText(vi.outcome.content))
        /\ (\A i \in 1..Len(vi.outcome.content) :
               ~FlatVoiceTrue(vi.outcome.content[i].text)) => ~vi.value

\* a classifier output {"voice": "true"} (a string) decided as false
C5_Witness ==
    /\ vi.pc = "returned" /\ vi.called = 1
    /\ vi.outcome.kind = "response"
    /\ Strip(FirstText(vi.outcome.content)) = <<"{", StrVoice, ":", StrTrue, "}">>
    /\ ~vi.value

\* ------------------------------------------------------------------------
\* The system: events, deployment and the external world
\* ------------------------------------------------------------------------
MaxInbound == 1
MaxForeign == 1
MaxBatch == 2

NoMedia == [type |-> "none", s3_bucket |-> None, s3_key |-> None]
NoInteractive == [present |-> FALSE, button_title |-> None, list_title |-> None]

\* the bucket names of the deployment (environment variables)
S3_BUCKET == <<"m", "b">>
OUTPUT_BUCKET == <<"t", "b">>
OUTPUT_PREFIX == <<"t", "r", "a", "n", "s", "c", "r", "i", "p", "t", "s", "/">>

KindText(kind) ==
    CASE kind = "audio" -> <<"a", "u", "d", "i", "o">>
      [] kind = "image" -> <<"i", "m", "a", "g", "e">>
      [] OTHER -> <<"d", "o", "c", "u", "m", "e", "n", "t">>

\* guess_ext of the mime type the channel reports for the media of a message
MediaExt(kind) ==
    CASE kind = "audio" -> <<"o", "g", "g">>
      [] kind = "image" -> <<"j", "p", "g">>
      [] OTHER -> <<"b", "i", "n">>

WaPhoneId == <<"9">>

\* messages as the channel posts them: audio messages come from every
\* sender, and from one of them with two ids; text messages come with and
\* without a sender, the other kinds from one sender
Froms == {None, <<"5", "1">>, <<"g", "-", "1">>}
TextFroms == {None, <<"5", "1">>}
MediaFroms == {<<"5", "1">>}
Ids == {<<"M", "1">>}
AudioIds == {<<"M", "1">>, <<"w", ".", "2">>}
AudioSenders ==
    {p \in Froms \X AudioIds : p[1] = <<"5", "1">> \/ p[2] = <<"M", "1">>}

RawMessages ==
    { [type |-> "text", from |-> f, id |-> i, body |-> b,
       interactive |-> NoInteractive, has_media_id |-> FALSE] :
          f \in TextFroms, i \in Ids, b \in {<<>>, <<"h", "i">>} }
    \cup
    { [type |-> "interactive", from |-> f, id |-> i, body |-> None,
       interactive |-> [present |-> TRUE, button_title |-> t[1], list_title |-> t[2]],
       has_media_id |-> FALSE] :
          f \in MediaFroms, i \in Ids,
          t \in {<<None, None>>, <<<<"B", " ">>, None>>, <<None, <<"L">>>>} }
    \cup
    { [type |-> k, from |-> f, id |-> i, body |-> None,
       interactive |-> NoInteractive, has_media_id |-> TRUE] :
          k \in {"image", "document"}, f \in MediaFroms, i \in Ids }
    \cup
    { [type |-> "audio", from |-> p[1], id |-> p[2], body |-> None,
       interactive |-> NoInteractive, has_media_id |-> TRUE] :
          p \in AudioSenders }

\* store_media_if_any when every call succeeds
StoredMedia(msg) ==
    [type |-> msg.type, s3_bucket |-> S3_BUCKET,
     s3_key |-> <<"w", "h", "a", "t", "s", "a", "p", "p", "/">> \o WaPhoneId \o <<"/">> \o Fmt(msg.from) \o <<"/">>
                \o Fmt(msg.id) \o <<"/">> \o KindText(msg.type) \o <<".">>
                \o MediaExt(msg.type)]

\* the normalized payload the webhook builds; stored tells whether
\* store_media_if_any returned (TRUE) or raised (FALSE)
Normalize(msg, stored) ==
    [from |-> msg.from, id |-> msg.id, type |-> msg.type,
     text |-> IF msg.type = "text" THEN msg.body ELSE None,
     interactive |-> IF msg.type = "interactive" THEN msg.interactive
                     ELSE NoInteractive,
     media |-> IF msg.has_media_id /\ stored THEN StoredMedia(msg) ELSE NoMedia,
     raw |-> TRUE]

\* outcomes of an external call that can fail only in fault mode
OkOr(failures) == IF cfg.faults THEN {"ok"} \cup failures ELSE {"ok"}

RunIdle ==
    [pc |-> "idle", event |-> Normalize(CHOOSE m \in RawMessages : TRUE, FALSE),
     session_id |-> None, user_text |-> None, agent_reply |-> None,
     wants_voice |-> FALSE, tts |-> "none", audio_url |-> None, outcome |-> "none",
     agent_out |-> [status |-> "none", chunk_count |-> 0, partial |-> <<>>],
     classify_input |-> None,
     agent_calls |-> <<>>, classify_calls |-> 0, tts_calls |-> 0,
     handoffs |-> 0, sends |-> <<>>]

CbIdle ==
    [pc |-> "idle", recs |-> <<>>, transcript |-> <<>>, ids |-> <<None, None>>,
     dispatched |-> <<>>, result |-> "none"]

\* no invocation is in progress and none of wa-send is pending
Quiet == run.pc = "idle" /\ cb.pc = "idle" /\ outbox = <<>>

\* nothing has been posted, delivered again or recorded yet; log is the
\* record of the finished runs of wa-process, kept when cfg.observe is set
PostedNothing == [inbound |-> 0, foreign |-> 0, redelivered |-> 0, log |-> <<>>]

SysInit ==
    /\ cfg \in [transcribeFn : BOOLEAN, ttsFn : BOOLEAN, faults : BOOLEAN,
                observe : {FALSE}]
    /\ inbox = <<>>
    /\ run = RunIdle
    /\ tq = <<>>
    /\ jobs = {}
    /\ notes = <<>>
    /\ cb = CbIdle
    /\ outbox = <<>>
    /\ posted = PostedNothing
    /\ jb = None /\ vi = None /\ st = None /\ FnOff

\* s without its i-th element
Without(s, i) == SubSeq(s, 1, i - 1) \o SubSeq(s, i + 1, Len(s))

\* inbound-webhook, lambda_handler for a POST carrying one message: media is
\* stored (a failure is logged), the payload is normalized and handed to
\* wa-process (a failure is logged)
Webhook ==
    /\ Quiet
    /\ posted.inbound < MaxInbound
    /\ \E msg \in RawMessages, store \in OkOr({"raise"}), invoke \in OkOr({"raise"}) :
          /\ inbox' = IF invoke = "ok"
                      THEN Append(inbox, Normalize(msg, store = "ok"))
                      ELSE inbox
          /\ posted' = [posted EXCEPT !.inbound = @ + 1]
    /\ UNCHANGED <<cfg, run, tq, jobs, notes, cb, outbox>>
    /\ UNCHANGED pureVars

\* ------------------------------------------------------------------------
\* The orchestrator (wa-process)
\* ------------------------------------------------------------------------
MEDIA_BUCKET == <<"m", "b">>
Hola == <<"H", "o", "l", "a">>
Apology == <<"L", "o", " ", "s", "i", "e", "n", "t", "o", ",", " ", "n", "o", " ", "p", "u", "d", "e", " ", "g", "e", "n", "e", "r", "a", "r", " ", "u", "n", "a", " ", "r", "e", "s", "p", "u", "e", "s", "t", "a", ".">>
Sentinel == <<CheckMark>>

\* text[:4096] in _send_whatsapp_text, text[:3000] in _tts_get_url_sync
WA_TEXT_MAX == 4096
TTS_TEXT_MAX == 3000

_read_text_from_event(ev) ==
    LET text == Strip(IF Truthy(ev.text) THEN ev.text ELSE <<>>)
        it   == ev.interactive
        sel  == IF Truthy(it.button_title) THEN it.button_title
                ELSE IF Truthy(it.list_title) THEN it.list_title
                ELSE <<>>
        t2   == IF text = <<>> /\ it.present THEN Strip(sel) ELSE text
    IN  IF t2 # <<>> THEN t2 ELSE Hola

\* step 2 of the handler: the context block appended for an image
WithImageContext(ev, user_text) ==
    IF ev.media.type = "image" /\ Truthy(ev.media.s3_key)
    THEN Strip(user_text) \o <<"\n", "\n", "[", "I", "M", "A", "G", "E", "_", "C", "O", "N", "T", "E", "X", "T", "]", "\n">> \o <<"s", "3", "U", "r", "i", ":", " ">> \o <<"s", "3", ":", "/", "/">>
         \o MEDIA_BUCKET \o <<"/">> \o ev.media.s3_key \o <<"\n">>
         \o <<"q", "u", "e", "s", "t", "i", "o", "n", ":", " ">> \o user_text \o <<"\n">> \o <<"[", "/", "I", "M", "A", "G", "E", "_", "C", "O", "N", "T", "E", "X", "T", "]">>
    ELSE user_text

\* the for loop of _invoke_agent up to the end of the stream or an exception
RECURSIVE RunStream(_, _)
RunStream(acc, evs) ==
    IF evs = <<>> \/ acc.raised THEN acc
    ELSE RunStream(ConsumeEvent(acc, Head(evs)), Tail(evs))

\* the accumulator of _invoke_agent when the call ends, by return or by
\* exception
AgentAcc(o) ==
    IF o.open = "stream" THEN RunStream(AccInit, o.script) ELSE AccInit

\* how the call ends: invoke_agent or the stream raised, or the call returned
AgentEnded(o) ==
    IF o.open = "client_error" \/ AgentAcc(o).raised THEN "raised" ELSE "ok"

\* an _invoke_agent that returns the text accumulated before a failure of
\* the stream
InvokeAgentKeepPartial(o) ==
    IF o.open = "client_error" THEN AgentRaised
    ELSE IF o.open = "no_completion" THEN AgentNoStream
    ELSE AgentResult(RunStream(AccInit, o.script))

_invoke_agent(o) ==
    IF o.open = "client_error" THEN AgentRaised
    ELSE IF o.open = "no_completion" THEN AgentNoStream
    ELSE LET acc == RunStream(AccInit, o.script)
         IN  IF acc.raised THEN AgentRaised ELSE AgentResult(acc)

\* what the generation backend may answer
AgentScripts ==
    { <<>>,
      <<ChunkEv("str", <<"o", "k">>)>>,
      <<OtherEv("trace", "t"), ChunkEv("str", <<" ">>), ChunkEv("bytes", <<CheckMark, "\n">>)>>,
      <<ChunkEv("str", <<CheckMark>>), OtherEv("guardrail", "g"), ChunkEv("str", <<"!">>)>> }

AgentOutcomes ==
    { [open |-> "stream", script |-> sc] : sc \in AgentScripts }
    \cup (IF cfg.faults
          THEN { [open |-> "client_error", script |-> <<>>],
                 [open |-> "no_completion", script |-> <<>>],
                 [open |-> "stream",
                  script |-> <<ChunkEv("str", <<"o">>), OtherEv("error", "e")>>] }
          ELSE {})

\* what the intent model may answer
ClassifierResponses ==
    { [kind |-> "response", content |-> <<TextItem(VoiceTrueDoc)>>],
      [kind |-> "response",
       content |-> <<TextItem(<<"{", StrVoice, ":", "false", "}">>)>>] }

ClassifierFailures ==
    { [kind |-> "timeout", content |-> <<>>],
      [kind |-> "response", content |-> <<TextItem(<<Junk>>)>>] }

ClassifierOutcomes ==
    ClassifierResponses \cup (IF cfg.faults THEN ClassifierFailures ELSE {})

\* the try/except part of _classify_voice_intent, tabulated over the
\* classifier outcomes of the system
ClassifierVerdict ==
    [c \in ClassifierResponses \cup ClassifierFailures |->
        ClassifyExcept(ClassifyTry(c)).value]

_classify_voice_intent(user_text, outcome) ==
    IF Strip(IF Truthy(user_text) THEN user_text ELSE <<>>) = <<>>
    THEN FALSE
    ELSE ClassifierVerdict[outcome]

\* a start of wa-process that waits until nothing earlier of the same sender
\* is pending or in transcription
ProcReceiveInOrder ==
    /\ Quiet
    /\ \E i \in 1..Len(inbox) :
          /\ i = 1
          /\ \A k \in 1..Len(tq) : tq[k].from # inbox[i].from
          /\ \A j \in jobs : j.state = "running" => j.from # inbox[i].from
          /\ \A k \in 1..Len(notes) : notes[k].from # inbox[i].from
          /\ run' = [RunIdle EXCEPT !.pc = "entry", !.event = inbox[i]]
          /\ inbox' = Without(inbox, i)
    /\ UNCHANGED <<cfg, tq, jobs, notes, cb, outbox, posted>>
    /\ UNCHANGED pureVars

\* an asynchronous invocation of wa-process starts
ProcReceive ==
    /\ Quiet
    /\ \E i \in 1..Len(inbox) :
          /\ run' = [RunIdle EXCEPT !.pc = "entry", !.event = inbox[i]]
          /\ inbox' = Without(inbox, i)
    /\ UNCHANGED <<cfg, tq, jobs, notes, cb, outbox, posted>>
    /\ UNCHANGED pureVars

\* a session key that also depends on the message
SessionIdPerMessage(ev) == <<"w", "a", "-">> \o ev.from \o <<"-">> \o Fmt(ev.id)

\* session_id = f"wa-{from_id}", reached only with a truthy from_id
SessionId(ev) == <<"w", "a", "-">> \o ev.from


\* lambda_handler up to the call of the generation backend: the audio
\* branch, the sender check, the user text and the image context
ProcEntry ==
    /\ run.pc = "entry"
    /\ LET ev == run.event
       IN  run' =
             IF ev.media.type = "audio"
             THEN IF ~cfg.transcribeFn
                  THEN [run EXCEPT !.pc = "done", !.outcome = "transcribe_unconfigured"]
                  ELSE [run EXCEPT !.pc = "handoff"]
             ELSE IF ~Truthy(ev.from)
             THEN [run EXCEPT !.pc = "done", !.outcome = "no_sender"]
             ELSE [run EXCEPT !.pc = "agent",
                              !.session_id = SessionId(ev),
                              !.user_text = WithImageContext(ev, _read_text_from_event(ev))]
    /\ UNCHANGED <<cfg, inbox, tq, jobs, notes, cb, outbox, posted>>
    /\ UNCHANGED pureVars

\* the handoff without the return after it
ProcHandoffNoReturn ==
    /\ run.pc = "handoff"
    /\ \E o \in OkOr({"raise"}) :
          /\ run' = [run EXCEPT !.handoffs = @ + 1,
                                !.pc = IF o = "ok" THEN "agent" ELSE "failed",
                                !.outcome = IF o = "ok" THEN "dispatched_transcription"
                                            ELSE "raised"]
          /\ tq' = IF o = "ok" THEN Append(tq, run.event) ELSE tq
    /\ UNCHANGED <<cfg, inbox, jobs, notes, cb, outbox, posted>>
    /\ UNCHANGED pureVars

\* _lambda.invoke(WA_AUDIO_TRANSCRIBE_FUNCTION, "Event", event)
ProcHandoff ==
    /\ run.pc = "handoff"
    /\ \E o \in OkOr({"raise"}) :
          /\ run' = [run EXCEPT !.handoffs = @ + 1,
                                !.pc = IF o = "ok" THEN "done" ELSE "failed",
                                !.outcome = IF o = "ok" THEN "dispatched_transcription"
                                            ELSE "raised"]
          /\ tq' = IF o = "ok" THEN Append(tq, run.event) ELSE tq
    /\ UNCHANGED <<cfg, inbox, jobs, notes, cb, outbox, posted>>
    /\ UNCHANGED pureVars

\* a step 3 without the try/except around _invoke_agent
ProcAgentPropagate ==
    /\ run.pc = "agent"
    /\ \E o \in AgentOutcomes :
          \E out \in {_invoke_agent(o)}, acc \in {AgentAcc(o)} :
             run' = [run EXCEPT
                        !.pc = IF out.status = "ok" THEN "classify" ELSE "failed",
                        !.outcome = IF out.status = "ok" THEN @ ELSE "raised",
                        !.agent_calls = Append(@, [session_id |-> run.session_id,
                                                   input |-> run.user_text,
                                                   user_phone |-> run.event.from]),
                        !.agent_out = [status |-> AgentEnded(o),
                                       chunk_count |-> acc.chunk_count,
                                       partial |-> Join(acc.text_parts)],
                        !.agent_reply = IF out.status = "ok" /\ out.text # <<>>
                                        THEN out.text ELSE Apology]
    /\ UNCHANGED <<cfg, inbox, tq, jobs, notes, cb, outbox, posted>>
    /\ UNCHANGED pureVars

\* step 3: the generation backend, and the apology for an empty reply;
\* agent_out keeps how the call ended and what it had accumulated
ProcAgent ==
    /\ run.pc = "agent"
    /\ \E o \in AgentOutcomes :
          \E out \in {_invoke_agent(o)}, acc \in {AgentAcc(o)} :
             run' = [run EXCEPT
                        !.pc = "classify",
                        !.agent_calls = Append(@, [session_id |-> run.session_id,
                                                   input |-> run.user_text,
                                                   user_phone |-> run.event.from]),
                        !.agent_out = [status |-> AgentEnded(o),
                                       chunk_count |-> acc.chunk_count,
                                       partial |-> Join(acc.text_parts)],
                        !.agent_reply = IF out.status = "ok" /\ out.text # <<>>
                                        THEN out.text ELSE Apology]
    /\ UNCHANGED <<cfg, inbox, tq, jobs, notes, cb, outbox, posted>>
    /\ UNCHANGED pureVars

\* a step 4 that asks the classifier again after a failure
ProcClassifyRetry ==
    /\ run.pc = "classify"
    /\ \E c \in ClassifierOutcomes :
          LET wv == _classify_voice_intent(run.user_text, c)
          IN  run' = [run EXCEPT !.wants_voice = wv,
                                 !.classify_input = run.user_text,
                                 !.classify_calls = @ + 1,
                                 !.pc = IF c \in ClassifierFailures /\ run.classify_calls = 0
                                        THEN "classify"
                                        ELSE IF wv THEN "tts" ELSE "sentinel"]
    /\ UNCHANGED <<cfg, inbox, tq, jobs, notes, cb, outbox, posted>>
    /\ UNCHANGED pureVars

\* step 4: the voice-intent decision
ProcClassify ==
    /\ run.pc = "classify"
    /\ \E c \in ClassifierOutcomes :
          LET wv == _classify_voice_intent(run.user_text, c)
          IN  run' = [run EXCEPT !.wants_voice = wv,
                                 !.classify_input = run.user_text,
                                 !.classify_calls = @ + 1,
                                 !.pc = IF wv THEN "tts" ELSE "sentinel"]
    /\ UNCHANGED <<cfg, inbox, tq, jobs, notes, cb, outbox, posted>>
    /\ UNCHANGED pureVars

\* wa-tts, lambda_handler: the value the invocation yields.  A ClientError
\* of the speech service is answered with ok = false; any other exception
\* and a failed upload leave the handler and become a function error.
TtsWorker(event, service) ==
    IF Strip(event.text) = <<>>
    THEN [kind |-> "return", ok |-> FALSE, audio_url |-> None]
    ELSE IF service = "polly_client_error"
    THEN [kind |-> "return", ok |-> FALSE, audio_url |-> None]
    ELSE IF service \in {"polly_other_error", "s3_error"}
    THEN [kind |-> "function_error", ok |-> FALSE, audio_url |-> None]
    ELSE [kind |-> "return", ok |-> TRUE,
          audio_url |-> <<"h", "t", "t", "p", "s", ":", "/", "/", "t", "t", "s", "/">> \o Fmt(event.to) \o <<".", "m", "p", "3">>]

\* a text-to-speech call that takes any answered payload for a success
TtsGetUrlUnchecked(to_no_plus, text, o) ==
    IF ~cfg.ttsFn \/ o = "invoke_error" THEN None
    ELSE <<"h", "t", "t", "p", "s", ":", "/", "/", "t", "t", "s", "/">> \o Fmt(to_no_plus) \o <<".", "m", "p", "3">>

\* _tts_get_url_sync: audio_url or None
_tts_get_url_sync(to_no_plus, text, o) ==
    IF ~cfg.ttsFn THEN None
    ELSE IF o = "invoke_error" THEN None
    ELSE LET data == TtsWorker([to |-> to_no_plus, text |-> Take(text, TTS_TEXT_MAX)], o)
         IN  IF data.kind = "return" /\ data.ok /\ Truthy(data.audio_url)
             THEN data.audio_url
             ELSE None

TtsOutcomes ==
    OkOr({"invoke_error", "polly_client_error", "polly_other_error", "s3_error"})

\* step 4, voice requested: text-to-speech
ProcTts ==
    /\ run.pc = "tts"
    /\ \E o \in TtsOutcomes :
          LET url == _tts_get_url_sync(run.event.from, run.agent_reply, o)
          IN  run' = [run EXCEPT !.audio_url = url,
                                 !.tts = IF cfg.ttsFn THEN o ELSE "not_configured",
                                 !.tts_calls = IF cfg.ttsFn THEN @ + 1 ELSE @,
                                 !.pc = IF Truthy(url) THEN "send_audio" ELSE "sentinel"]
    /\ UNCHANGED <<cfg, inbox, tq, jobs, notes, cb, outbox, posted>>
    /\ UNCHANGED pureVars

\* _send_whatsapp_audio without the return after it
ProcSendAudioFallThrough ==
    /\ run.pc = "send_audio"
    /\ \E o \in OkOr({"raise"}) :
          LET payload == [to |-> run.event.from, kind |-> "audio", body |-> run.audio_url]
          IN  /\ run' = [run EXCEPT !.sends = Append(@, payload),
                                    !.pc = IF o = "ok" THEN "sentinel" ELSE "failed",
                                    !.outcome = IF o = "ok" THEN "audio" ELSE "raised"]
              /\ outbox' = IF o = "ok" THEN Append(outbox, payload) ELSE outbox
    /\ UNCHANGED <<cfg, inbox, tq, jobs, notes, cb, posted>>
    /\ UNCHANGED pureVars

\* _send_whatsapp_audio and return
ProcSendAudio ==
    /\ run.pc = "send_audio"
    /\ \E o \in OkOr({"raise"}) :
          LET payload == [to |-> run.event.from, kind |-> "audio", body |-> run.audio_url]
          IN  /\ run' = [run EXCEPT !.sends = Append(@, payload),
                                    !.pc = IF o = "ok" THEN "done" ELSE "failed",
                                    !.outcome = IF o = "ok" THEN "audio" ELSE "raised"]
              /\ outbox' = IF o = "ok" THEN Append(outbox, payload) ELSE outbox
    /\ UNCHANGED <<cfg, inbox, tq, jobs, notes, cb, posted>>
    /\ UNCHANGED pureVars

\* a comparison that looks for the sentinel anywhere in the reply
IsSentinelContained(reply) == \E i \in 1..Len(reply) : reply[i] = CheckMark

\* step 5: agent_reply.strip() == sentinel
IsSentinel(reply) == Strip(reply) = Sentinel

ProcSentinel ==
    /\ run.pc = "sentinel"
    /\ run' = IF IsSentinel(run.agent_reply)
              THEN [run EXCEPT !.pc = "done", !.outcome = "already_delivered"]
              ELSE [run EXCEPT !.pc = "send_text"]
    /\ UNCHANGED <<cfg, inbox, tq, jobs, notes, cb, outbox, posted>>
    /\ UNCHANGED pureVars

\* step 6: _send_whatsapp_text and return
ProcSendText ==
    /\ run.pc = "send_text"
    /\ \E o \in OkOr({"raise"}) :
          LET payload == [to |-> run.event.from, kind |-> "text",
                          body |-> Take(run.agent_reply, WA_TEXT_MAX)]
          IN  /\ run' = [run EXCEPT !.sends = Append(@, payload),
                                    !.pc = IF o = "ok" THEN "done" ELSE "failed",
                                    !.outcome = IF o = "ok" THEN "text" ELSE "raised"]
              /\ outbox' = IF o = "ok" THEN Append(outbox, payload) ELSE outbox
    /\ UNCHANGED <<cfg, inbox, tq, jobs, notes, cb, posted>>
    /\ UNCHANGED pureVars

\* what the record of finished runs keeps of a run: the event it was for,
\* its outcome, and how many generation calls and outbound dispatches it
\* made
RunSummary(r) ==
    [id |-> r.event.id, from |-> r.event.from, raw |-> r.event.raw,
     outcome |-> r.outcome, calls |-> Len(r.agent_calls), sends |-> Len(r.sends)]

\* the invocation is over
ProcFinish ==
    /\ run.pc \in {"done", "failed"}
    /\ run' = RunIdle
    /\ posted' = IF cfg.observe
                 THEN [posted EXCEPT !.log = Append(@, RunSummary(run))]
                 ELSE posted
    /\ UNCHANGED <<cfg, inbox, tq, jobs, notes, cb, outbox>>
    /\ UNCHANGED pureVars

\* ------------------------------------------------------------------------
\* The transcription worker (wa-audio-transcribe) and the transcription
\* service
\* ------------------------------------------------------------------------
JobNames == {j.name : j \in jobs}

\* lambda_handler: one invocation.  A job name that is already taken makes
\* start_transcription_job raise ClientError (conflict), which is logged.
TranscribeWorker ==
    /\ Quiet
    /\ \E i \in 1..Len(tq), o \in OkOr({"client_error"}) :
          LET ev   == tq[i]
              name == _job_name(ev.from, ev.id)
          IN  /\ tq' = Without(tq, i)
              /\ jobs' = IF /\ ev.media.type = "audio"
                            /\ Truthy(ev.media.s3_bucket) /\ Truthy(ev.media.s3_key)
                            /\ o = "ok" /\ name \notin JobNames
                         THEN jobs \cup {[name |-> name, state |-> "running",
                                          from |-> ev.from]}
                         ELSE jobs
    /\ UNCHANGED <<cfg, inbox, run, notes, cb, outbox, posted>>
    /\ UNCHANGED pureVars

\* transcript documents: the text of results.transcripts[0].transcript, or
\* a blob that is no such document
Doc(shape, transcript) == [shape |-> shape, transcript |-> transcript]

ServiceDocs == {Doc("ok", t) : t \in {<<>>, <<"s", "i", " ">>}}

ForeignDocs ==
    {Doc("ok", <<"s", "i">>), Doc("ok", <<" ">>), Doc("empty_blob", None),
     Doc("invalid_json", None), Doc("no_results", None)}

\* the transcription service finishes a job: it writes the result under
\* OutputKey, and the bucket notifies the callback; in fault mode the job
\* may fail instead
JobComplete ==
    /\ Quiet
    /\ \E j \in jobs, o \in OkOr({"job_failed"}), d \in ServiceDocs :
          /\ j.state = "running"
          /\ jobs' = (jobs \ {j}) \cup {[j EXCEPT !.state = "closed"]}
          /\ notes' = IF o = "ok"
                      THEN Append(notes, [bucket |-> OUTPUT_BUCKET,
                                          key |-> OUTPUT_PREFIX \o j.name \o <<".", "j", "s", "o", "n">>,
                                          doc |-> d, from |-> j.from])
                      ELSE notes
    /\ UNCHANGED <<cfg, inbox, run, tq, cb, outbox, posted>>
    /\ UNCHANGED pureVars

\* keys of other objects that may appear in the output bucket
ForeignKeys ==
    { OUTPUT_PREFIX \o <<"x", ".", "j", "s", "o", "n">>, OUTPUT_PREFIX \o <<"w", "a", "-", "g", "-", "1", ".", "j", "s", "o", "n">>, OUTPUT_PREFIX \o <<"w", "a", "-", "5", "1", "-", "M", "1", ".", "t", "m", "p">>,
      OUTPUT_PREFIX \o <<"w", "a", "-", "5", "1", "-", ".", "j", "s", "o", "n">>, <<"w", "a", "-", "7", "-", "F", ".", "j", "s", "o", "n">> }

\* an object that no job of the worker wrote is created in the bucket
ForeignObject ==
    /\ Quiet
    /\ posted.foreign < MaxForeign
    /\ \E k \in ForeignKeys, d \in ForeignDocs :
          notes' = Append(notes, [bucket |-> OUTPUT_BUCKET, key |-> k,
                                  doc |-> d, from |-> None])
    /\ posted' = [posted EXCEPT !.foreign = @ + 1]
    /\ UNCHANGED <<cfg, inbox, run, tq, jobs, cb, outbox>>
    /\ UNCHANGED pureVars

\* ------------------------------------------------------------------------
\* The transcription callback (wa-transcribe-finish)
\* ------------------------------------------------------------------------
\* position of the last "/" of key, 0 when there is none
LastSlash(key) ==
    LET idx == {i \in 1..Len(key) : key[i] = "/"}
    IN  IF idx = {} THEN 0 ELSE CHOOSE i \in idx : \A j \in idx : j <= i

EndsWith(s, suffix) ==
    Len(s) >= Len(suffix) /\ SubSeq(s, Len(s) - Len(suffix) + 1, Len(s)) = suffix

\* the last path component of the key, suffix and all
JobnameWithSuffix(key) == SubSeq(key, LastSlash(key) + 1, Len(key))

_extract_jobname_from_key(key) ==
    LET name == SubSeq(key, LastSlash(key) + 1, Len(key))
    IN  IF EndsWith(name, <<".", "j", "s", "o", "n">>) THEN SubSeq(name, 1, Len(name) - 5) ELSE None

\* an _extract_transcript without the strip
ExtractTranscriptUnstripped(doc) ==
    IF doc.shape = "ok" /\ Truthy(doc.transcript) THEN doc.transcript ELSE <<>>

\* _read_s3_json followed by _extract_transcript
_extract_transcript(doc) ==
    IF doc.shape = "ok" /\ Truthy(doc.transcript) THEN Strip(doc.transcript) ELSE <<>>

\* a synthetic event that loses the message id
TextEventNoId(from_id, message_id, transcript) ==
    [from |-> from_id, id |-> None, type |-> "text", text |-> transcript,
     interactive |-> NoInteractive, media |-> NoMedia, raw |-> FALSE]

\* the event _invoke_wa_process_as_text sends
TextEvent(from_id, message_id, transcript) ==
    [from |-> from_id, id |-> message_id, type |-> "text", text |-> transcript,
     interactive |-> NoInteractive, media |-> NoMedia, raw |-> FALSE]

\* the loop moves to the next record, or the handler acknowledges
CbAdvance(c) ==
    IF Len(c.recs) > 1
    THEN [c EXCEPT !.pc = "fetch", !.recs = Tail(@)]
    ELSE [c EXCEPT !.pc = "done", !.recs = Tail(@), !.result = "ack"]

\* a notification with one or more records is handed to the handler
CbReceive ==
    /\ Quiet
    /\ \E n \in 1..MaxBatch :
          /\ n <= Len(notes)
          /\ cb' = [CbIdle EXCEPT !.pc = "fetch", !.recs = SubSeq(notes, 1, n)]
          /\ notes' = SubSeq(notes, n + 1, Len(notes))
    /\ UNCHANGED <<cfg, inbox, run, tq, jobs, outbox, posted>>
    /\ UNCHANGED pureVars

\* step 1 of the loop body: read the blob and take the transcript; an
\* empty transcript skips the record, a failed read leaves the handler
CbFetch ==
    /\ cb.pc = "fetch"
    /\ \E o \in OkOr({"raise"}) :
          LET t == _extract_transcript(Head(cb.recs).doc)
          IN  cb' = IF o = "raise"
                    THEN [cb EXCEPT !.pc = "failed", !.result = "raised"]
                    ELSE IF t = <<>> THEN CbAdvance(cb)
                    ELSE [cb EXCEPT !.pc = "match", !.transcript = t]
    /\ UNCHANGED <<cfg, inbox, run, tq, jobs, notes, outbox, posted>>
    /\ UNCHANGED pureVars

\* _extract_ids(job_name or "")
IdsOfKey(key) ==
    LET job_name == _extract_jobname_from_key(key)
    IN  _extract_ids(IF Truthy(job_name) THEN job_name ELSE <<>>)

\* the keys a notification can carry: the OutputKey of a job of the worker,
\* or the key of a foreign object
NoteKeys ==
    ForeignKeys \cup
    { OUTPUT_PREFIX \o _job_name(f, m) \o <<".", "j", "s", "o", "n">> :
        f \in Froms, m \in AudioIds }

\* IdsOfKey, tabulated over these keys
IdsTable == [k \in NoteKeys |-> IdsOfKey(k)]

\* step 2 of the loop body: recover the ids from the job name; a name that
\* does not match skips the record
CbMatch ==
    /\ cb.pc = "match"
    /\ \E ids \in {IdsTable[Head(cb.recs).key]} :
           cb' = IF ~(Truthy(ids[1]) /\ Truthy(ids[2]))
                 THEN CbAdvance([cb EXCEPT !.ids = ids])
                 ELSE [cb EXCEPT !.pc = "invoke", !.ids = ids]
    /\ UNCHANGED <<cfg, inbox, run, tq, jobs, notes, outbox, posted>>
    /\ UNCHANGED pureVars

\* a step 3 that hands over a transcript only when the same event is neither
\* pending nor already handled
CbInvokeOnce ==
    /\ cb.pc = "invoke"
    /\ \E o \in OkOr({"client_error", "raise"}) :
          LET ev == TextEvent(cb.ids[1], cb.ids[2], cb.transcript)
              seen == \/ \E i \in 1..Len(inbox) : inbox[i] = ev
                      \/ \E i \in 1..Len(posted.log) :
                            ~posted.log[i].raw /\ posted.log[i].id = ev.id
              c2 == IF seen THEN cb
                    ELSE [cb EXCEPT !.dispatched = Append(@, [key |-> Head(cb.recs).key,
                                                              event |-> ev])]
          IN  /\ cb' = IF o = "raise"
                       THEN [c2 EXCEPT !.pc = "failed", !.result = "raised"]
                       ELSE CbAdvance(c2)
              /\ inbox' = IF o = "ok" /\ ~seen THEN Append(inbox, ev) ELSE inbox
    /\ UNCHANGED <<cfg, run, tq, jobs, notes, outbox, posted>>
    /\ UNCHANGED pureVars

\* step 3 of the loop body: hand the transcript to wa-process; ClientError
\* is logged, any other exception leaves the handler
CbInvoke ==
    /\ cb.pc = "invoke"
    /\ \E o \in OkOr({"client_error", "raise"}) :
          LET ev == TextEvent(cb.ids[1], cb.ids[2], cb.transcript)
              c2 == [cb EXCEPT !.dispatched = Append(@, [key |-> Head(cb.recs).key,
                                                         event |-> ev])]
          IN  /\ cb' = IF o = "raise"
                       THEN [c2 EXCEPT !.pc = "failed", !.result = "raised"]
                       ELSE CbAdvance(c2)
              /\ inbox' = IF o = "ok" THEN Append(inbox, ev) ELSE inbox
    /\ UNCHANGED <<cfg, run, tq, jobs, notes, outbox, posted>>
    /\ UNCHANGED pureVars

\* the invocation is over
CbFinish ==
    /\ cb.pc \in {"done", "failed"}
    /\ cb' = CbIdle
    /\ UNCHANGED <<cfg, inbox, run, tq, jobs, notes, outbox, posted>>
    /\ UNCHANGED pureVars

\* ------------------------------------------------------------------------
\* The outbound dispatcher (wa-send)
\* ------------------------------------------------------------------------
\* lambda_handler: one invocation takes its payload and makes at most one
\* call of the channel
WaSend ==
    /\ run.pc = "idle" /\ cb.pc = "idle"
    /\ outbox # <<>>
    /\ outbox' = Tail(outbox)
    /\ UNCHANGED <<cfg, inbox, run, tq, jobs, notes, cb, posted>>
    /\ UNCHANGED pureVars

\* ------------------------------------------------------------------------
\* Specification Spec: the system.  FairSpec: the system when no external
\* call fails, every started or pending invocation runs, and the
\* transcription service finishes its jobs
\* ------------------------------------------------------------------------
Proc ==
    \/ ProcReceive \/ ProcEntry \/ ProcHandoff \/ ProcAgent \/ ProcClassify
    \/ ProcTts \/ ProcSendAudio \/ ProcSentinel \/ ProcSendText \/ ProcFinish

Callback == CbReceive \/ CbFetch \/ CbMatch \/ CbInvoke \/ CbFinish

Next ==
    \/ Webhook \/ Proc \/ TranscribeWorker \/ JobComplete \/ ForeignObject
    \/ Callback \/ WaSend

Spec == SysInit /\ [][Next]_vars

\* the steps of the invocations and of the transcription service
Handlers == Proc \/ Callback \/ TranscribeWorker \/ JobComplete \/ WaSend

\* the initial states in which no external call fails
FairInit == SysInit /\ ~cfg.faults

FairSpec == FairInit /\ [][Next]_vars /\ WF_vars(Handlers)

\* ------------------------------------------------------------------------
\* Specification SpecConv: one conversation.  A voice message and then a
\* text message of the same sender arrive, no external call fails, and the
\* bucket may deliver a completion notification more than once (S3 event
\* notifications are delivered at least once).  The finished runs of
\* wa-process are recorded in posted.log.
\* ------------------------------------------------------------------------
MaxRedeliver == 1

VoiceMessage ==
    CHOOSE m \in RawMessages :
        m.type = "audio" /\ m.from = <<"5", "1">> /\ m.id = <<"w", ".", "2">>

LaterTextMessage ==
    CHOOSE m \in RawMessages :
        m.type = "text" /\ m.from = <<"5", "1">> /\ m.body = <<"h", "i">>

Conversation == <<VoiceMessage, LaterTextMessage>>

ConvInit ==
    /\ cfg \in [transcribeFn : {TRUE}, ttsFn : BOOLEAN, faults : {FALSE},
                observe : {TRUE}]
    /\ inbox = <<>>
    /\ run = RunIdle
    /\ tq = <<>>
    /\ jobs = {}
    /\ notes = <<>>
    /\ cb = CbIdle
    /\ outbox = <<>>
    /\ posted = PostedNothing
    /\ jb = None /\ vi = None /\ st = None /\ FnOff

\* inbound-webhook, lambda_handler for the next message of the conversation
ConvPost ==
    /\ Quiet
    /\ posted.inbound < Len(Conversation)
    /\ inbox' = Append(inbox, Normalize(Conversation[posted.inbound + 1], TRUE))
    /\ posted' = [posted EXCEPT !.inbound = @ + 1]
    /\ UNCHANGED <<cfg, run, tq, jobs, notes, cb, outbox>>
    /\ UNCHANGED pureVars

\* the bucket delivers a pending completion notification once more
Redeliver ==
    /\ Quiet
    /\ posted.redelivered < MaxRedeliver
    /\ \E i \in 1..Len(notes) : notes' = Append(notes, notes[i])
    /\ posted' = [posted EXCEPT !.redelivered = @ + 1]
    /\ UNCHANGED <<cfg, inbox, run, tq, jobs, cb, outbox>>
    /\ UNCHANGED pureVars

ConvNext ==
    \/ ConvPost \/ Redeliver \/ Proc \/ TranscribeWorker \/ JobComplete
    \/ Callback \/ WaSend

SpecConv == ConvInit /\ [][ConvNext]_vars

\* ------------------------------------------------------------------------
\* Properties of one run of the orchestrator
\* ------------------------------------------------------------------------
Ended == run.pc \in {"done", "failed"}

\* an outbound dispatch is a call of _send_whatsapp_text or
\* _send_whatsapp_audio; run.sends lists the calls of the run
TextDispatch(r) == [to |-> r.event.from, kind |-> "text",
                    body |-> Take(r.agent_reply, WA_TEXT_MAX)]

AudioWithMedia == run.pc # "idle" /\ run.event.type = "audio" /\ run.event.media.type = "audio"

CallsNothingElse ==
    /\ run.agent_calls = <<>> /\ run.classify_calls = 0
    /\ run.tts_calls = 0 /\ run.sends = <<>>

\* C2 as stated: every audio event with media is handed to the
\* transcription worker exactly once, and nothing else is called.
C2_AudioAlwaysHandedOff ==
    (AudioWithMedia /\ Ended) => (run.handoffs = 1 /\ CallsNothingElse)

\* C2 (amended): for an audio event with media the run calls neither the
\* generation backend, the classifier, text-to-speech nor the dispatcher;
\* when the transcription worker is configured it hands the full event to
\* it exactly once and returns, and when it is not configured it returns
\* without any handoff.
C2_AudioHandedOffWhenConfigured ==
    AudioWithMedia =>
        /\ CallsNothingElse
        /\ run.handoffs <= 1
        /\ Ended =>
              /\ run.handoffs = (IF cfg.transcribeFn THEN 1 ELSE 0)
              /\ run.outcome = "dispatched_transcription" =>
                    (\E i \in 1..Len(tq) : tq[i] = run.event)
              /\ run.outcome \in {"dispatched_transcription", "raised",
                                  "transcribe_unconfigured"}
              /\ (run.outcome = "transcribe_unconfigured") = ~cfg.transcribeFn

C2_Witness ==
    /\ AudioWithMedia /\ run.pc = "done" /\ run.handoffs = 1
    /\ Len(tq) = 1 /\ tq[1] = run.event

\* C3: an audio event without media is dropped: no generation-backend
\* call, no transcription handoff and no outbound dispatch.
C3_AudioWithoutMediaDropped ==
    (run.pc # "idle" /\ run.event.type = "audio" /\ run.event.media.type = "none") =>
        (run.agent_calls = <<>> /\ run.handoffs = 0 /\ run.sends = <<>>)

\* C4: whenever the reply of the generation backend is the sentinel after
\* trimming, the run ends as "already delivered" without any outbound
\* dispatch, whatever the voice decision and the text-to-speech result.
C4_SentinelNeverDispatched ==
    (Ended /\ run.agent_calls # <<>> /\ Strip(run.agent_reply) = <<CheckMark>>) =>
        (run.sends = <<>> /\ run.outcome = "already_delivered")

VoiceChosen == Ended /\ run.wants_voice

\* C10 as stated: voice and text-to-speech success give one audio
\* dispatch and no text; voice and any text-to-speech failure give one text
\* dispatch with the backend reply; without voice text-to-speech is not
\* called.
C10_VoiceOrTextFallback ==
    /\ (VoiceChosen /\ run.tts = "ok") =>
          (Len(run.sends) = 1 /\ run.sends[1].kind = "audio")
    /\ (VoiceChosen /\ run.tts # "ok") => run.sends = <<TextDispatch(run)>>
    /\ (run.pc # "idle" /\ ~run.wants_voice) => run.tts_calls = 0

\* C10 (amended): as stated, except that after a text-to-speech failure
\* the run continues with the sentinel check: a reply that is the sentinel
\* after trimming ends as "already delivered" without any dispatch, every
\* other reply is dispatched as text.
C10_VoiceOrSentinelOrText ==
    /\ (VoiceChosen /\ run.tts = "ok") =>
          /\ Len(run.sends) = 1 /\ run.sends[1].kind = "audio"
          /\ run.sends[1].to = run.event.from
          /\ run.tts_calls = 1
    /\ (VoiceChosen /\ run.tts # "ok") =>
          /\ run.tts_calls = (IF cfg.ttsFn THEN 1 ELSE 0)
          /\ IF Strip(run.agent_reply) = <<CheckMark>>
             THEN run.sends = <<>> /\ run.outcome = "already_delivered"
             ELSE run.sends = <<TextDispatch(run)>>
    /\ (run.pc # "idle" /\ ~run.wants_voice) => run.tts_calls = 0

\* the worker answered ok = false and the reply went out as text
C10_Witness ==
    /\ VoiceChosen /\ run.tts = "polly_client_error" /\ run.tts_calls = 1
    /\ run.sends = <<TextDispatch(run)>> /\ run.pc = "done"

\* ------------------------------------------------------------------------
\* Properties of the callback and of the audio path
\* ------------------------------------------------------------------------
\* the key names a result "wa-<digits>-<id>.json" in some folder
KeyHasJobPattern(key) ==
    \E i \in 1..Len(key), j \in 1..Len(key) :
        /\ i < j /\ j < Len(key) - 5
        /\ (i = 1 \/ key[i - 1] = "/")
        /\ \A k \in i..Len(key) : key[k] # "/"
        /\ Len(key) >= i + 2
        /\ key[i] = "w" /\ key[i + 1] = "a" /\ key[i + 2] = "-"
        /\ j >= i + 4 /\ key[j] = "-"
        /\ \A k \in (i + 3)..(j - 1) : key[k] \in Digits
        /\ \A k \in (j + 1)..(Len(key) - 5) : key[k] \in MessageIdChars
        /\ SubSeq(key, Len(key) - 4, Len(key)) = <<".", "j", "s", "o", "n">>

\* C7: a key whose job name does not match the pattern makes the reverse
\* function return "no match" (no exception), and the handler skips the
\* record: nothing is dispatched to the orchestrator for it, the loop goes
\* on to the next record, and after the last record the handler returns
\* its acknowledgement.
C7_UnmatchedNameSkipped ==
    /\ [](cb.pc # "idle" => \A i \in 1..Len(cb.dispatched) :
                               KeyHasJobPattern(cb.dispatched[i].key))
    /\ [][(cb.pc = "match" /\ ~KeyHasJobPattern(Head(cb.recs).key)) =>
             /\ cb'.ids = <<None, None>>
             /\ cb'.dispatched = cb.dispatched
             /\ inbox' = inbox
             /\ IF Len(cb.recs) > 1
                THEN cb'.pc = "fetch" /\ cb'.recs = Tail(cb.recs)
                ELSE cb'.pc = "done" /\ cb'.result = "ack"]_vars

\* a record with a transcript and a key that does not match was skipped
\* and the handler acknowledged
C7_Witness ==
    /\ cb.pc = "done" /\ cb.result = "ack"
    /\ cb.transcript # <<>> /\ cb.ids = <<None, None>> /\ cb.dispatched = <<>>

NumericFroms == {f \in Froms : f # None /\ AllIn(f, Digits)}

\* a run for an event that the callback sent has ended
Reentered(f) == Ended /\ ~run.event.raw /\ run.event.from = f

\* C9 as stated: when no external call fails, every audio event with media
\* from a numeric sender leads to a re-entered run that ends with exactly
\* one dispatch to that sender.
C9_AudioLeadsToReply ==
    \A f \in NumericFroms :
        (AudioWithMedia /\ run.pc = "entry" /\ run.event.from = f)
            ~> (Reentered(f) /\ Len(run.sends) = 1 /\ run.sends[1].to = f)

\* C9 (amended): when no external call fails and the transcription worker
\* is configured, every audio event with media from a numeric sender gets
\* a transcription job under its job name; the callback recovers the
\* sender of a job from the key of its result; and once a result with a
\* non-empty transcript is handed to the callback, the orchestrator is
\* re-entered and that run ends with exactly one dispatch to the sender or
\* with "already delivered" and no dispatch.
C9_AudioLeadsToOutcome ==
    /\ [](cb.pc = "invoke" /\ Head(cb.recs).from # None
              => cb.ids[1] = Head(cb.recs).from)
    /\ \A f \in NumericFroms, i \in AudioIds :
          (AudioWithMedia /\ run.pc = "entry" /\ cfg.transcribeFn
                          /\ run.event.from = f /\ run.event.id = i)
              ~> (\E j \in jobs : j.name = _job_name(f, i) /\ j.from = f)
    /\ \A f \in NumericFroms :
          (cb.pc = "fetch" /\ Head(cb.recs).from = f
                           /\ _extract_transcript(Head(cb.recs).doc) # <<>>)
              ~> (Reentered(f) /\ \/ Len(run.sends) = 1 /\ run.sends[1].to = f
                                  \/ run.sends = <<>> /\ run.outcome = "already_delivered")

\* a transcript came back as a text event and was answered
C9_Witness ==
    /\ ~cfg.faults /\ run.pc = "done" /\ ~run.event.raw
    /\ run.event.from \in NumericFroms
    /\ run.event.text = <<"s", "i">>
    /\ Len(run.sends) = 1 /\ run.sends[1].to = run.event.from
    /\ \E j \in jobs : j.from = run.event.from /\ j.state = "closed"

\* ------------------------------------------------------------------------
\* Properties of the generation step
\* ------------------------------------------------------------------------
\* the call of the generation backend has ended
AgentCalled == run.pc # "idle" /\ run.agent_out.status # "none"

\* the call raised, or returned without any text
AgentGaveNothing ==
    \/ run.agent_out.status = "raised"
    \/ run.agent_out.chunk_count = 0
    \/ Strip(run.agent_out.partial) = <<>>

\* C11: the generation step always yields a deliverable reply: when the
\* call of the generation backend raises, or ends with no chunk or with an
\* empty final text, the reply is the apology and the handler continues
\* with the voice decision; the reply is never empty and no text body that
\* is dispatched is empty.
C11_AlwaysDeliverableReply ==
    /\ [](AgentCalled =>
             /\ run.agent_reply # <<>> /\ run.agent_reply # None
             /\ AgentGaveNothing => run.agent_reply = Apology
             /\ \A i \in 1..Len(run.sends) :
                    run.sends[i].kind = "text" => run.sends[i].body # <<>>)
    /\ [][run.pc = "agent" =>
             run'.pc = "classify" /\ run'.agent_out.status # "none"]_vars

\* the call raised and the apology went out as text
C11_Witness ==
    /\ run.pc = "done" /\ run.agent_out.status = "raised"
    /\ run.agent_out.chunk_count = 0
    /\ run.sends = <<[to |-> run.event.from, kind |-> "text", body |-> Apology]>>

\* the stream failed after at least one chunk
MidStreamFailure ==
    AgentCalled /\ run.agent_out.status = "raised" /\ run.agent_out.chunk_count >= 1

\* C12 as stated: after a failure of the stream that comes after one or
\* more chunks, the reply used by the handler is the text accumulated so
\* far.
C12_PartialTextIsUsed ==
    MidStreamFailure => run.agent_reply = Strip(run.agent_out.partial)

\* C12 (amended): after a failure of the stream that comes after one or
\* more chunks, the accumulated text is discarded: the exception leaves
\* _invoke_agent, and the reply used by the handler is the apology.
C12_PartialTextIsDiscarded ==
    MidStreamFailure =>
        /\ run.agent_out.partial # <<>>
        /\ run.agent_reply = Apology
        /\ \A i \in 1..Len(run.sends) :
               run.sends[i].kind = "text" => run.sends[i].body = Apology

\* the stream failed after the chunk "o" and the apology was dispatched
C12_Witness ==
    /\ MidStreamFailure /\ run.pc = "done"
    /\ run.agent_out.partial = <<"o">>
    /\ Len(run.sends) = 1 /\ run.sends[1].body = Apology

\* ------------------------------------------------------------------------
\* Properties of trace capture
\* ------------------------------------------------------------------------
\* C13: in every state of streaming assembly and in the returned result the
\* retained trace events are at most LOG_TRACE_MAX, and they are the first
\* trace events of the stream in stream order.
C13_TraceCaptureBounded ==
    /\ Len(st.acc.trace_summaries) <= LOG_TRACE_MAX
    /\ Len(st.result.trace_events) <= LOG_TRACE_MAX

\* ------------------------------------------------------------------------
\* Properties of the voice decision inside the handler
\* ------------------------------------------------------------------------
\* C14: the text handed to the voice-intent classifier is the user text as
\* derived from the event, before any image context is appended.
C14_ClassifierGetsOriginalText ==
    (run.pc # "idle" /\ run.classify_calls > 0) =>
        run.classify_input = _read_text_from_event(run.event)

\* ------------------------------------------------------------------------
\* Properties of the re-entry from the callback
\* ------------------------------------------------------------------------
\* the key is "<folder>/wa-<from_id>-<message_id>.json" or that name alone
KeyNames(key, from_id, message_id) ==
    LET name == <<"w", "a", "-">> \o from_id \o <<"-">> \o message_id
                  \o <<".", "j", "s", "o", "n">>
    IN  /\ EndsWith(key, name)
        /\ Len(key) = Len(name) \/ key[Len(key) - Len(name)] = "/"

\* C15: for a record with a non-empty transcript and a matching job name
\* the callback sends the orchestrator exactly one event of kind text whose
\* text is the transcript and whose sender and message id are the ones in
\* the job name, without media; the orchestrator handles it on the text
\* path and never hands it to transcription.
C15_ReentryAsTextEvent ==
    /\ [][(cb.pc = "match" /\ KeyHasJobPattern(Head(cb.recs).key)) =>
             cb'.pc = "invoke"]_vars
    /\ [][cb.pc = "invoke" =>
             /\ Len(cb'.dispatched) = Len(cb.dispatched) + 1
             /\ SubSeq(cb'.dispatched, 1, Len(cb.dispatched)) = cb.dispatched
             /\ LET ev  == cb'.dispatched[Len(cb'.dispatched)].event
                     rec == Head(cb.recs)
                 IN  /\ ev.type = "text" /\ ev.media = NoMedia
                     /\ ev.text # <<>> /\ ev.text = Strip(rec.doc.transcript)
                     /\ KeyNames(rec.key, ev.from, ev.id)
                     /\ AllIn(ev.from, Digits) /\ ev.from # <<>> /\ ev.id # <<>>
                     /\ inbox' \in {inbox, Append(inbox, ev)}
                     /\ ~cfg.faults => inbox' = Append(inbox, ev)]_vars
    /\ []((run.pc # "idle" /\ ~run.event.raw) =>
             /\ run.handoffs = 0
             /\ run.event.type = "text" /\ run.event.media = NoMedia
             /\ Ended => /\ Len(run.agent_calls) = 1
                         /\ run.agent_calls[1].input = run.event.text)

\* an event made by the callback was answered on the text path
C15_Witness ==
    /\ run.pc = "done" /\ ~run.event.raw /\ run.handoffs = 0
    /\ run.event.from = <<"5", "1">> /\ run.event.id = <<"w", "-", "2">>
    /\ run.event.text = <<"s", "i">>
    /\ Len(run.sends) = 1

\* ------------------------------------------------------------------------
\* Properties of the callback for results without a transcript
\* ------------------------------------------------------------------------
\* the blob is empty, is no JSON, has no results.transcripts, or its
\* transcript is empty or only whitespace
NoTranscript(doc) ==
    \/ doc.shape # "ok"
    \/ doc.transcript = None
    \/ AllIn(doc.transcript, Whitespace)

\* C16: a record whose blob was read and carries no transcript is skipped:
\* nothing is dispatched to the orchestrator, nothing is queued again, the
\* loop goes on, and after the last record the handler acknowledges.
C16_NoTranscriptSkipped ==
    /\ [][(cb.pc = "fetch" /\ NoTranscript(Head(cb.recs).doc)
                           /\ cb'.result # "raised") =>
             /\ cb'.dispatched = cb.dispatched
             /\ inbox' = inbox /\ notes' = notes /\ tq' = tq /\ jobs' = jobs
             /\ IF Len(cb.recs) > 1
                THEN cb'.pc = "fetch" /\ cb'.recs = Tail(cb.recs)
                ELSE cb'.pc = "done" /\ cb'.result = "ack"]_vars
    /\ [](cb.pc # "idle" =>
             \A i \in 1..Len(cb.dispatched) :
                ~AllIn(cb.dispatched[i].event.text, Whitespace))

\* every record of the notification was skipped for its transcript and the
\* handler acknowledged
C16_Witness ==
    /\ cb.pc = "done" /\ cb.result = "ack"
    /\ cb.transcript = <<>> /\ cb.dispatched = <<>>

\* ------------------------------------------------------------------------
\* Redelivered completion notifications (SpecConv)
\* ------------------------------------------------------------------------
\* the finished runs that were for a transcript handed over by the callback
ReEntries == {i \in 1..Len(posted.log) : ~posted.log[i].raw}

\* nothing is pending or in progress anywhere
Drained ==
    /\ Quiet /\ inbox = <<>> /\ tq = <<>> /\ notes = <<>>
    /\ \A j \in jobs : j.state = "closed"

VoiceRuns ==
    {i \in 1..Len(posted.log) :
        posted.log[i].raw /\ posted.log[i].id = VoiceMessage.id}

\* C18: nothing orders the replies of one conversation.  A pending event
\* is taken by wa-process whatever else of the same sender is pending or
\* in transcription, and the run for a voice message never replies itself:
\* the reply comes from a later run, for the transcript.  So the reply to
\* a later text message can be dispatched before the reply to the earlier
\* voice message (C18_Witness).
C18_NoReplyOrdering ==
    /\ \A i \in 1..Len(inbox) :
          Quiet => ENABLED (ProcReceive /\ run'.event = inbox[i])
    /\ \A i \in VoiceRuns :
          /\ posted.log[i].calls = 0 /\ posted.log[i].sends = 0
          /\ posted.log[i].outcome = "dispatched_transcription"

\* the voice message arrived first (Conversation), and the run that replied
\* to the text message finished before the run that replied to the voice
\* message's transcript
C18_Witness ==
    \E i, j \in 1..Len(posted.log) :
       /\ i < j
       /\ posted.log[i].raw /\ posted.log[i].id = LaterTextMessage.id
       /\ posted.log[i].sends = 1
       /\ ~posted.log[j].raw /\ posted.log[j].from = VoiceMessage.from
       /\ posted.log[j].sends = 1

\* ------------------------------------------------------------------------
\* Failures during ingestion and at the boundary of the handlers (Spec)
\* ------------------------------------------------------------------------
\* an event of a media message without media: every media message of
\* RawMessages carries a media id, so its media could not be fetched or
\* stored
StoreFailed(ev) ==
    ev.raw /\ ev.type \in {"audio", "image", "document"} /\ ev.media = NoMedia

\* C19: a message whose media could not be fetched or stored is dropped by
\* the webhook: no event for it is handed to the orchestrator, and no run
\* calls the generation backend or dispatches a reply for it.
C19_MediaFailureDropsEvent ==
    /\ \A i \in 1..Len(inbox) : ~StoreFailed(inbox[i])
    /\ (run.pc # "idle" /\ StoreFailed(run.event))
          => run.agent_calls = <<>> /\ run.sends = <<>>

\* C20: no handler fails: whatever call fails inside it, wa-process and
\* wa-transcribe-finish end with their acknowledgement, never with an
\* exception that leaves the handler.
C20_HandlersNeverFail ==
    /\ run.pc # "failed" /\ run.outcome # "raised"
    /\ cb.pc # "failed" /\ cb.result # "raised"

\* ------------------------------------------------------------------------
\* Specification SpecPost: inbound-webhook, lambda_handler for one POST
\* ------------------------------------------------------------------------
\* A decoded JSON value, as far as the handler looks at it: its type k and,
\* under c, the items of a list or the one member of an object that the
\* handler reads at that level ("entry", "changes", "value", "messages");
\* "absent" stands for a key the object does not have, "number" for a
\* non-zero number.
J(k, c) == [k |-> k, c |-> c]

MaxMsgs == 2

\* lists of at most n items of S
ListsUpTo(S, n) == UNION {[1..k -> S] : k \in 0..n}

\* the messages a well-formed payload carries here
PostMessages ==
    { m \in RawMessages :
        m.type = "text" /\ m.from = <<"5", "1">> /\ m.body = <<"h", "i">> }

NotDict == {J("null", <<>>), J("number", <<>>)}
NotList == {J("absent", <<>>), J("null", <<>>), J("number", <<>>)}

MsgNodes == {J("number", <<>>)} \cup {J("dict", <<m>>) : m \in PostMessages}
MessagesNodes == NotList \cup {J("list", l) : l \in ListsUpTo(MsgNodes, MaxMsgs)}
ValueNodes == NotList \cup {J("dict", <<x>>) : x \in MessagesNodes}
ChangeNodes == {J("number", <<>>)} \cup {J("dict", <<x>>) : x \in ValueNodes}
ChangesNodes ==
    NotList \cup {J("list", <<>>)} \cup {J("list", <<x>>) : x \in ChangeNodes}
    \cup {J("list", <<x, y>>) : x, y \in ChangeNodes}
EntryNodes == {J("number", <<>>)} \cup {J("dict", <<x>>) : x \in ChangesNodes}
EntriesNodes ==
    NotList \cup {J("list", <<>>)} \cup {J("list", <<x>>) : x \in EntryNodes}

\* event.get("body"): absent, a string that is no JSON, or a string that
\* decodes to a value
PostBodies ==
    {J("absent", <<>>), J("not_json", <<>>), J("list", <<>>)} \cup NotDict
    \cup {J("dict", <<x>>) : x \in EntriesNodes}

\* the handler so far: the events handed to dispatch_to_processor, and
\* whether an exception has left the handler
PostAcc(out, raised) == [out |-> out, raised |-> raised]

\* for msg in msgs: classify_and_log(msg, v) reads msg.get, which only a
\* dict has; the media store and the invoke succeed
RECURSIVE PostMsgs(_, _)
PostMsgs(msgs, acc) ==
    IF msgs = <<>> \/ acc.raised THEN acc
    ELSE IF Head(msgs).k # "dict" THEN PostAcc(acc.out, TRUE)
    ELSE PostMsgs(Tail(msgs),
                  PostAcc(Append(acc.out, Normalize(Head(msgs).c[1], TRUE)), FALSE))

\* the body of `for ch in e.get("changes", [])`
PostChange(ch, acc) ==
    IF ch.k # "dict" THEN PostAcc(acc.out, TRUE)
    ELSE LET v == IF ch.c[1].k = "absent" THEN J("dict", <<J("absent", <<>>)>>)
                  ELSE ch.c[1]
         IN  IF v.k # "dict" THEN PostAcc(acc.out, TRUE)
             ELSE LET msgs == v.c[1]
                  IN  IF msgs.k \in {"absent", "null"} THEN acc
                      ELSE IF msgs.k = "list" /\ msgs.c = <<>> THEN acc
                      ELSE IF msgs.k # "list" THEN PostAcc(acc.out, TRUE)
                      ELSE PostMsgs(msgs.c, acc)

RECURSIVE PostChanges(_, _)
PostChanges(chs, acc) ==
    IF chs = <<>> \/ acc.raised THEN acc
    ELSE PostChanges(Tail(chs), PostChange(Head(chs), acc))

\* the body of `for e in entries`
PostEntry(e, acc) ==
    IF e.k # "dict" THEN PostAcc(acc.out, TRUE)
    ELSE IF e.c[1].k = "absent" THEN acc
    ELSE IF e.c[1].k # "list" THEN PostAcc(acc.out, TRUE)
    ELSE PostChanges(e.c[1].c, acc)

RECURSIVE PostEntries(_, _)
PostEntries(es, acc) ==
    IF es = <<>> \/ acc.raised THEN acc
    ELSE PostEntries(Tail(es), PostEntry(Head(es), acc))

\* lambda_handler for a POST: the status it returns, or "raised" when an
\* exception leaves it, and the events it dispatched
PostHandler(body_raw) ==
    IF body_raw.k = "not_json" THEN [status |-> "200", out |-> <<>>]
    ELSE LET body == IF body_raw.k = "absent" THEN J("dict", <<J("absent", <<>>)>>)
                     ELSE body_raw
             acc == IF body.k # "dict" THEN PostAcc(<<>>, TRUE)
                    ELSE IF body.c[1].k = "absent" THEN PostAcc(<<>>, FALSE)
                    ELSE IF body.c[1].k # "list" THEN PostAcc(<<>>, TRUE)
                    ELSE PostEntries(body.c[1].c, PostAcc(<<>>, FALSE))
         IN  [status |-> IF acc.raised THEN "raised" ELSE "200", out |-> acc.out]

PostInit ==
    /\ wh \in {[pc |-> "posted", body |-> b, result |-> [status |-> "none", out |-> <<>>]] :
                 b \in PostBodies}
    /\ jb = None /\ vi = None /\ st = None
    /\ ws = None /\ tl = None /\ np = None /\ tk = None /\ dc = None
    /\ SysOff

PostHandle ==
    /\ wh.pc = "posted"
    /\ wh' = [wh EXCEPT !.pc = "handled", !.result = PostHandler(wh.body)]
    /\ UNCHANGED <<jb, vi, st, ws, tl, np, tk, dc>> /\ UNCHANGED sysVars

PostNext == PostHandle

SpecPost == PostInit /\ [][PostNext]_vars

\* the payload has the expected shape: an object whose "entry" is a list of
\* objects, each with "changes" a list of objects, each with "value" an
\* object whose "messages" is a list of objects
WellShaped(body) ==
    /\ body.k = "dict" /\ body.c[1].k = "list"
    /\ \A i \in 1..Len(body.c[1].c) :
          LET e == body.c[1].c[i]
          IN  /\ e.k = "dict" /\ e.c[1].k = "list"
              /\ \A j \in 1..Len(e.c[1].c) :
                    LET ch == e.c[1].c[j]
                    IN  /\ ch.k = "dict" /\ ch.c[1].k = "dict"
                        /\ ch.c[1].c[1].k = "list"
                        /\ \A n \in 1..Len(ch.c[1].c[1].c) :
                              ch.c[1].c[1].c[n].k = "dict"

\* C21: a POST whose body is no JSON, or JSON without the expected
\* entry/changes/messages shape, is acknowledged with status 200, hands
\* nothing to the orchestrator, and no exception leaves the handler.
C21_MalformedPayloadAcknowledged ==
    (wh.pc = "handled" /\ ~WellShaped(wh.body))
        => wh.result.status = "200" /\ wh.result.out = <<>>

\* ------------------------------------------------------------------------
\* Specification SpecSend: wa-send, lambda_handler for one request
\* ------------------------------------------------------------------------
\* caption[:1024]
CAPTION_MAX == 1024

\* event.get(field): absent, empty, blank, or a value with blanks around it
SendFields == {None, <<>>, <<" ">>, <<" ", "u", " ">>}

SendRecipients == {None, <<>>, <<"5", "1">>}

SendRequests ==
    [to : SendRecipients, text : SendFields, audio_url : SendFields,
     image_url : SendFields, caption : {None, <<"c">>}]

\* (event.get(field) or "").strip()
Field(x) == Strip(IF Truthy(x) THEN x ELSE <<>>)

\* a lambda_handler that prefers text over audio over image
SendHandlerTextFirst(event, post) ==
    LET to        == event.to
        text      == Field(event.text)
        audio_url == Field(event.audio_url)
        image_url == Field(event.image_url)
        caption   == Field(event.caption)
        call == IF text # <<>>
                THEN <<[kind |-> "text", to |-> to, content |-> Take(text, WA_TEXT_MAX),
                        caption |-> None]>>
                ELSE IF audio_url # <<>>
                THEN <<[kind |-> "audio", to |-> to, content |-> audio_url,
                        caption |-> None]>>
                ELSE IF image_url # <<>>
                THEN <<[kind |-> "image", to |-> to, content |-> image_url,
                        caption |-> IF caption # <<>> THEN Take(caption, CAPTION_MAX)
                                    ELSE None]>>
                ELSE <<>>
    IN  IF ~Truthy(to) THEN [status |-> "400", calls |-> <<>>]
        ELSE IF call = <<>> THEN [status |-> "400", calls |-> <<>>]
        ELSE [status |-> IF post = "ok" THEN "200" ELSE "500", calls |-> call]

\* lambda_handler: the status it returns and the calls of the channel it
\* makes; post is the outcome of the HTTP request
SendHandler(event, post) ==
    LET to        == event.to
        text      == Field(event.text)
        audio_url == Field(event.audio_url)
        image_url == Field(event.image_url)
        caption   == Field(event.caption)
        call == IF image_url # <<>>
                THEN <<[kind |-> "image", to |-> to, content |-> image_url,
                        caption |-> IF caption # <<>> THEN Take(caption, CAPTION_MAX)
                                    ELSE None]>>
                ELSE IF audio_url # <<>>
                THEN <<[kind |-> "audio", to |-> to, content |-> audio_url,
                        caption |-> None]>>
                ELSE IF text # <<>>
                THEN <<[kind |-> "text", to |-> to, content |-> Take(text, WA_TEXT_MAX),
                        caption |-> None]>>
                ELSE <<>>
    IN  IF ~Truthy(to) THEN [status |-> "400", calls |-> <<>>]
        ELSE IF call = <<>> THEN [status |-> "400", calls |-> <<>>]
        ELSE [status |-> IF post = "ok" THEN "200" ELSE "500", calls |-> call]

SendInit ==
    /\ ws \in {[pc |-> "requested", event |-> e, post |-> o,
                result |-> [status |-> "none", calls |-> <<>>]] :
                 e \in SendRequests, o \in {"ok", "raise"}}
    /\ jb = None /\ vi = None /\ st = None
    /\ wh = None /\ tl = None /\ np = None /\ tk = None /\ dc = None
    /\ SysOff

SendHandle ==
    /\ ws.pc = "requested"
    /\ ws' = [ws EXCEPT !.pc = "handled", !.result = SendHandler(ws.event, ws.post)]
    /\ UNCHANGED <<jb, vi, st, wh, tl, np, tk, dc>> /\ UNCHANGED sysVars

SendNext == SendHandle

SpecSend == SendInit /\ [][SendNext]_vars

\* the kinds of the channel calls of the request
SendKinds == [i \in 1..Len(ws.result.calls) |-> ws.result.calls[i].kind]

\* C22: one request makes at most one channel call, chosen with priority
\* image > audio > text among the fields that are not empty after trimming;
\* without a recipient, or with no such field, it makes no call and the
\* result is a client error.
C22_OneCallByPriority ==
    ws.pc = "handled" =>
        LET has(f) == Field(f) # <<>>
            e == ws.event
        IN  /\ Len(ws.result.calls) <= 1
            /\ IF ~Truthy(e.to) \/ ~(has(e.image_url) \/ has(e.audio_url) \/ has(e.text))
               THEN ws.result.calls = <<>> /\ ws.result.status = "400"
               ELSE /\ SendKinds = IF has(e.image_url) THEN <<"image">>
                                   ELSE IF has(e.audio_url) THEN <<"audio">>
                                   ELSE <<"text">>
                    /\ ws.result.calls[1].to = e.to
                    /\ ws.result.status \in {"200", "500"}

\* all three fields are populated and only the image is sent
C22_Witness ==
    /\ ws.pc = "handled"
    /\ Field(ws.event.text) # <<>> /\ Field(ws.event.audio_url) # <<>>
    /\ Field(ws.event.image_url) # <<>>
    /\ SendKinds = <<"image">> /\ ws.result.status = "200"

\* ------------------------------------------------------------------------
\* The vision sub-call (wa-image-analyze) and the image sub-call
\* (wa-image-generate): where the parameters of a request are taken from
\* ------------------------------------------------------------------------
UpperLetters == <<"A", "B", "C", "D", "E", "F", "G", "H", "I", "J", "K", "L", "M",
                  "N", "O", "P", "Q", "R", "S", "T", "U", "V", "W", "X", "Y", "Z">>
LowerLetters == <<"a", "b", "c", "d", "e", "f", "g", "h", "i", "j", "k", "l", "m",
                  "n", "o", "p", "q", "r", "s", "t", "u", "v", "w", "x", "y", "z">>

\* str.lower()
ToLower(c) ==
    IF c \in Upper
    THEN LowerLetters[CHOOSE i \in 1..Len(UpperLetters) : UpperLetters[i] = c]
    ELSE c

LowerText(s) == [i \in 1..Len(s) |-> ToLower(s[i])]

\* the first position at or after start where pat occurs in s, 0 when none
IndexOf(s, pat, start) ==
    LET at == {i \in start..(Len(s) - Len(pat) + 1) :
                  SubSeq(s, i, i + Len(pat) - 1) = pat}
    IN  IF at = {} THEN 0 ELSE CHOOSE i \in at : \A j \in at : i <= j

\* the characters str.splitlines() breaks at
LineBreaks == {"\n", "\r"}

\* [ln.strip() for ln in block.splitlines() if ln.strip()]
RECURSIVE StrippedLines(_)
StrippedLines(s) ==
    LET brk == {i \in 1..Len(s) : s[i] \in LineBreaks}
    IN  IF brk = {}
        THEN IF Strip(s) = <<>> THEN <<>> ELSE <<Strip(s)>>
        ELSE LET i  == CHOOSE x \in brk : \A y \in brk : x <= y
                 ln == Strip(SubSeq(s, 1, i - 1))
             IN  (IF ln = <<>> THEN <<>> ELSE <<ln>>)
                 \o StrippedLines(SubSeq(s, i + 1, Len(s)))

BLOCK_OPEN == <<"[", "I", "M", "A", "G", "E", "_", "C", "O", "N", "T", "E", "X", "T", "]">>
BLOCK_CLOSE == <<"[", "/", "I", "M", "A", "G", "E", "_", "C", "O", "N", "T", "E", "X", "T", "]">>

\* _IMG_BLOCK_RE.search(text): group 1 of the leftmost, shortest match, or
\* None; the markers match in any case
ImgBlock(text) ==
    LET low == LowerText(text)
        o   == IndexOf(low, LowerText(BLOCK_OPEN), 1)
        c   == IF o = 0 THEN 0
               ELSE IndexOf(low, LowerText(BLOCK_CLOSE), o + Len(BLOCK_OPEN))
    IN  IF o = 0 \/ c = 0 THEN None
        ELSE SubSeq(text, o + Len(BLOCK_OPEN), c - 1)

NoCtx == [s3Uri |-> None, question |-> None, language |-> None]

\* the body of `for ln in lines`
CtxLine(data, ln) ==
    LET colon == IndexOf(ln, <<":">>, 1)
        k == LowerText(Strip(SubSeq(ln, 1, colon - 1)))
        v == Strip(SubSeq(ln, colon + 1, Len(ln)))
    IN  IF colon = 0 THEN data
        ELSE IF k \in {<<"s", "3", "u", "r", "i">>, <<"s", "3", "_", "u", "r", "i">>}
        THEN [data EXCEPT !.s3Uri = v]
        ELSE IF k = <<"q", "u", "e", "s", "t", "i", "o", "n">> THEN [data EXCEPT !.question = v]
        ELSE IF k = <<"l", "a", "n", "g", "u", "a", "g", "e">> THEN [data EXCEPT !.language = v]
        ELSE data

RECURSIVE CtxLines(_, _)
CtxLines(data, lines) ==
    IF lines = <<>> THEN data ELSE CtxLines(CtxLine(data, Head(lines)), Tail(lines))

\* wa-image-analyze, _parse_image_context(text or ""); a key the dict does
\* not have is None
_parse_image_context(text) ==
    LET block == ImgBlock(IF Truthy(text) THEN text ELSE <<>>)
    IN  IF block = None THEN NoCtx ELSE CtxLines(NoCtx, StrippedLines(block))

\* A request of the agent to a sub-call, as far as the required parameter
\* (s3Uri for the vision sub-call, prompt for the image sub-call) goes.
\* requestBody is absent, a string that is no JSON, a JSON string of a flat
\* object, or the nested object {"content": {"application/json":
\* {"properties": [...]}}}; parameters is absent, null or a list of
\* name/value pairs; inputText is absent or a text.  value is the required
\* parameter there, None when it is not there.
\* a value the core of the sub-call accepts: an s3Uri that starts with
\* "s3://" and names a bucket and a key, a prompt of three characters
ToolValue(tool, c) ==
    IF tool = "analyze" THEN <<"s", "3", ":", "/", "/", c, "/", "k">>
    ELSE <<c, c, c>>

ToolBodies(tool) ==
    {[form |-> f, value |-> v] :
        f \in {"absent", "not_json"}, v \in {None}}
    \cup {[form |-> f, value |-> v] :
        f \in {"json_object", "nested_object"}, v \in {None, ToolValue(tool, "b")}}

ToolParameters(tool) ==
    {[form |-> f, value |-> v] : f \in {"absent", "null"}, v \in {None}}
    \cup {[form |-> "list", value |-> v] : v \in {None, ToolValue(tool, "p")}}

\* an inline block that carries the required parameter under the given key
InlineBlock(key, value) ==
    <<"h", "i", "\n">> \o BLOCK_OPEN \o <<"\n">> \o key \o <<":", " ">> \o value
    \o <<"\n">> \o BLOCK_CLOSE

ParamKey(tool) ==
    IF tool = "analyze" THEN <<"s", "3", "U", "r", "i">>
    ELSE <<"p", "r", "o", "m", "p", "t">>

ToolInputTexts(tool) ==
    {None, <<"h", "i">>, InlineBlock(ParamKey(tool), ToolValue(tool, "t")),
     InlineBlock(<<"x">>, ToolValue(tool, "t"))}

ToolRequests(tool) ==
    [requestBody : ToolBodies(tool), parameters : ToolParameters(tool),
     inputText : ToolInputTexts(tool)]

\* wa-image-analyze, lambda_handler for a tool invocation, up to the call of
\* _analyze_core (which succeeds): the status and the s3Uri it works on
AnalyzeRequest(event) ==
    LET body == IF event.requestBody.form = "json_object"
                THEN event.requestBody.value ELSE None
        s1 == body
        s2 == IF ~Truthy(s1) /\ event.parameters.form = "list"
              THEN event.parameters.value ELSE s1
        ctx == _parse_image_context(event.inputText)
        s3 == IF ~Truthy(s2) /\ ctx # NoCtx THEN ctx.s3Uri ELSE s2
    IN  IF ~Truthy(s3) THEN [status |-> "400", value |-> None]
        ELSE [status |-> "200", value |-> s3]

\* wa-image-generate, lambda_handler for a tool invocation, up to the call
\* of _generate_image_core (which succeeds): the status and the prompt it
\* works on.  `for p in params` raises for a null parameters member, which
\* the handler turns into status 500.
GenerateRequest(event) ==
    LET p1 == IF event.requestBody.form \in {"json_object", "nested_object"}
              THEN event.requestBody.value ELSE None
        p2 == IF ~Truthy(p1) /\ event.parameters.form = "list"
              THEN event.parameters.value ELSE p1
    IN  IF ~Truthy(p1) /\ event.parameters.form = "null"
        THEN [status |-> "500", value |-> None]
        ELSE IF ~Truthy(p2) THEN [status |-> "400", value |-> None]
        ELSE [status |-> "200", value |-> p2]

\* ------------------------------------------------------------------------
\* Specification SpecTool: one tool invocation of a sub-call
\* ------------------------------------------------------------------------
ToolInit ==
    /\ tl \in {[pc |-> "requested", tool |-> t, event |-> e,
                result |-> [status |-> "none", value |-> None]] :
                 t \in {"analyze"}, e \in ToolRequests("analyze")}
          \cup {[pc |-> "requested", tool |-> t, event |-> e,
                 result |-> [status |-> "none", value |-> None]] :
                 t \in {"generate"}, e \in ToolRequests("generate")}
    /\ jb = None /\ vi = None /\ st = None
    /\ wh = None /\ ws = None /\ np = None /\ tk = None /\ dc = None
    /\ SysOff

ToolAnalyze ==
    /\ tl.pc = "requested" /\ tl.tool = "analyze"
    /\ tl' = [tl EXCEPT !.pc = "handled", !.result = AnalyzeRequest(tl.event)]
    /\ UNCHANGED <<jb, vi, st, wh, ws, np, tk, dc>> /\ UNCHANGED sysVars

ToolGenerate ==
    /\ tl.pc = "requested" /\ tl.tool = "generate"
    /\ tl' = [tl EXCEPT !.pc = "handled", !.result = GenerateRequest(tl.event)]
    /\ UNCHANGED <<jb, vi, st, wh, ws, np, tk, dc>> /\ UNCHANGED sysVars

ToolNext == ToolAnalyze \/ ToolGenerate

SpecTool == ToolInit /\ [][ToolNext]_vars

\* the request carries the required parameter in its inline block and
\* nowhere else
OnlyInline ==
    /\ tl.event.requestBody.value = None
    /\ tl.event.parameters.form # "null" /\ tl.event.parameters.value = None
    /\ tl.event.inputText = InlineBlock(ParamKey(tl.tool), ToolValue(tl.tool, "t"))

\* C23: each of the two sub-calls takes the required parameter from the
\* request body, else from the parameter list, else from the inline block
\* of the input text; a request that carries it only in the inline block is
\* accepted, with the value of the block.
C23_ThreeParameterForms ==
    tl.pc = "handled" =>
        /\ (tl.event.requestBody.form = "json_object" /\ Truthy(tl.event.requestBody.value))
              => tl.result = [status |-> "200", value |-> tl.event.requestBody.value]
        /\ (tl.event.requestBody.value = None /\ Truthy(tl.event.parameters.value))
              => tl.result = [status |-> "200", value |-> tl.event.parameters.value]
        /\ OnlyInline => tl.result = [status |-> "200", value |-> ToolValue(tl.tool, "t")]

\* ------------------------------------------------------------------------
\* Specification SpecNames: _job_name applied to two correlation pairs
\* ------------------------------------------------------------------------
MaxPairLen == 2

PairKeyAlphabet == {"5", "-"}
PairIdAlphabet == {"5", "-", "."}

\* both message ids follow the same run of filler, so that names on both
\* sides of JOB_NAME_MAX occur
PairPads == {0, JOB_NAME_MAX - 6}

NamesInit ==
    /\ np \in {[pc |-> "received",
                a |-> [from_id |-> k1, message_id |-> Rep("x", p) \o m1],
                b |-> [from_id |-> k2, message_id |-> Rep("x", p) \o m2],
                job_a |-> None, job_b |-> None] :
                  k1, k2 \in TextsUpTo(PairKeyAlphabet, MaxPairLen),
                  m1, m2 \in TextsUpTo(PairIdAlphabet, MaxPairLen),
                  p \in PairPads}
    /\ jb = None /\ vi = None /\ st = None
    /\ wh = None /\ ws = None /\ tl = None /\ tk = None /\ dc = None
    /\ SysOff

\* the worker names the jobs of the two messages
NamesBuild ==
    /\ np.pc = "received"
    /\ np' = [np EXCEPT !.pc = "named",
                        !.job_a = _job_name(np.a.from_id, np.a.message_id),
                        !.job_b = _job_name(np.b.from_id, np.b.message_id)]
    /\ UNCHANGED <<jb, vi, st, wh, ws, tl, tk, dc>> /\ UNCHANGED sysVars

NamesNext == NamesBuild

SpecNames == NamesInit /\ [][NamesNext]_vars

\* C24 as stated: two messages with different (conversation key, message
\* id) never get the same job name.
C24_DistinctPairsDistinctNames ==
    (np.pc = "named" /\ np.a # np.b) => np.job_a # np.job_b

\* a pair the naming scheme carries without loss: an all-digit conversation
\* key, a message id over [A-Za-z0-9-], and a name "wa-<key>-<id>" of at
\* most JOB_NAME_MAX characters
PairFits(p) ==
    /\ AllIn(p.from_id, Digits) /\ AllIn(p.message_id, JobNameChars)
    /\ 3 + Len(p.from_id) + 1 + Len(p.message_id) <= JOB_NAME_MAX

\* C24 (amended): two different pairs, each with an all-digit conversation
\* key and a message id over [A-Za-z0-9-] and a name that fits in
\* JOB_NAME_MAX characters, get different job names.
C24_FittingPairsDistinctNames ==
    (np.pc = "named" /\ np.a # np.b /\ PairFits(np.a) /\ PairFits(np.b))
        => np.job_a # np.job_b

\* two messages of one sender whose names are JOB_NAME_MAX long and differ
\* in the last character only
C24_Witness ==
    /\ np.pc = "named" /\ PairFits(np.a) /\ PairFits(np.b)
    /\ np.a.from_id = np.b.from_id /\ np.a.message_id # np.b.message_id
    /\ Len(np.job_a) = JOB_NAME_MAX /\ Len(np.job_b) = JOB_NAME_MAX
    /\ np.job_a # np.job_b

\* ------------------------------------------------------------------------
\* Specification SpecToken: the token cache of one process (inbound-webhook,
\* get_wa_token; wa-send, token) under callers whose steps interleave
\* ------------------------------------------------------------------------
MaxCallers == 2

Callers == 1..MaxCallers

\* the tokens the secret holds over time
TokenOld == <<"t", "1">>
TokenNew == <<"t", "2">>

CallerIdle == [pc |-> "idle", path |-> "none", fetched |-> None, ret |-> None,
               calls |-> 0]

TokenInit ==
    /\ tk \in {[impl |-> i, cache |-> None, secret |-> TokenOld, issued |-> {},
                caller |-> [c \in Callers |-> CallerIdle]] :
                 i \in {"inbound-webhook", "wa-send"}}
    /\ jb = None /\ vi = None /\ st = None
    /\ wh = None /\ ws = None /\ tl = None /\ np = None /\ dc = None
    /\ SysOff

TokUnchanged == UNCHANGED <<jb, vi, st, wh, ws, tl, np, dc>> /\ UNCHANGED sysVars

\* the secret is rotated
TokRotate ==
    /\ tk.secret = TokenOld
    /\ tk' = [tk EXCEPT !.secret = TokenNew]
    /\ TokUnchanged

\* `if _WA_TOKEN_CACHE:` / `if _token_cache:`
TokStart ==
    /\ \E c \in Callers :
          /\ tk.caller[c].pc = "idle"
          /\ tk' = [tk EXCEPT !.caller[c].pc = IF Truthy(tk.cache) THEN "hit" ELSE "miss",
                              !.caller[c].path = IF Truthy(tk.cache) THEN "hit" ELSE "miss"]
    /\ TokUnchanged

\* `return _WA_TOKEN_CACHE` / `return _token_cache` of the first branch
TokReturnCached ==
    /\ \E c \in Callers :
          /\ tk.caller[c].pc = "hit"
          /\ tk' = [tk EXCEPT !.caller[c].pc = "done", !.caller[c].ret = tk.cache]
    /\ TokUnchanged

\* a fetch whose failure also overwrites the cache
TokFetchClobber ==
    /\ \E c \in Callers, o \in {"ok", "raise"} :
          /\ tk.caller[c].pc = "miss"
          /\ tk' = IF o = "ok"
                   THEN [tk EXCEPT !.caller[c].pc = "fetched",
                                   !.caller[c].calls = @ + 1,
                                   !.caller[c].fetched = tk.secret,
                                   !.issued = @ \cup {tk.secret}]
                   ELSE [tk EXCEPT !.caller[c].pc = "raised",
                                   !.caller[c].calls = @ + 1,
                                   !.cache = <<>>]
    /\ TokUnchanged

\* secrets.get_secret_value and the decoding of the secret: the token, or
\* an exception that leaves the accessor
TokFetch ==
    /\ \E c \in Callers, o \in {"ok", "raise"} :
          /\ tk.caller[c].pc = "miss"
          /\ tk' = IF o = "ok"
                   THEN [tk EXCEPT !.caller[c].pc = "fetched",
                                   !.caller[c].calls = @ + 1,
                                   !.caller[c].fetched = tk.secret,
                                   !.issued = @ \cup {tk.secret}]
                   ELSE [tk EXCEPT !.caller[c].pc = "raised",
                                   !.caller[c].calls = @ + 1]
    /\ TokUnchanged

\* `_WA_TOKEN_CACHE = token` / `_token_cache = json.loads(s)["token"]`
TokStore ==
    /\ \E c \in Callers :
          /\ tk.caller[c].pc = "fetched"
          /\ tk' = [tk EXCEPT !.caller[c].pc = "stored", !.cache = tk.caller[c].fetched]
    /\ TokUnchanged

\* `return token` in inbound-webhook, `return _token_cache` in wa-send
TokReturn ==
    /\ \E c \in Callers :
          /\ tk.caller[c].pc = "stored"
          /\ tk' = [tk EXCEPT !.caller[c].pc = "done",
                              !.caller[c].ret = IF tk.impl = "inbound-webhook"
                                                THEN tk.caller[c].fetched
                                                ELSE tk.cache]
    /\ TokUnchanged

TokenNext ==
    \/ TokRotate \/ TokStart \/ TokReturnCached \/ TokFetch \/ TokStore
    \/ TokReturn

SpecToken == TokenInit /\ [][TokenNext]_vars

\* a caller is between finding the cache empty and writing it
Populating == \E c \in Callers : tk.caller[c].pc \in {"miss", "fetched"}

\* C25: load once and hold.  A call that finds the cache populated does not
\* call the secret provider and returns a fetched token; while no caller
\* is populating, a populated cache keeps its value; a failed fetch leaves
\* the cache as it was; and when callers race, the cache holds a fetched
\* token (the last one written) and every caller that returns has a
\* fetched token.
C25_TokenCacheLoadOnce ==
    /\ [](\A c \in Callers :
            /\ tk.caller[c].path = "hit" => tk.caller[c].calls = 0
            /\ tk.caller[c].calls <= 1
            /\ tk.caller[c].pc = "done" =>
                  Truthy(tk.caller[c].ret) /\ tk.caller[c].ret \in tk.issued)
    /\ [](tk.cache # None => tk.cache \in tk.issued)
    /\ [][(Truthy(tk.cache) /\ ~Populating) => tk'.cache = tk.cache]_vars
    /\ [][\A c \in Callers :
            (tk.caller[c].pc = "idle" /\ Truthy(tk.cache) /\ tk'.caller[c].pc # "idle")
               => tk'.caller[c].pc = "hit"]_vars
    /\ [][\A c \in Callers :
            (tk.caller[c].pc = "hit" /\ tk'.caller[c].pc = "done" /\ ~Populating)
               => tk'.caller[c].ret = tk.cache /\ tk'.cache = tk.cache]_vars
    /\ [][(\E c \in Callers : tk.caller[c].pc = "miss" /\ tk'.caller[c].pc = "raised")
            => tk'.cache = tk.cache]_vars

\* two callers both found the cache empty and fetched different tokens; the
\* cache holds the one written last, and both returned a fetched token
C25_Witness ==
    \E a, b \in Callers :
       /\ a # b
       /\ tk.caller[a].path = "miss" /\ tk.caller[b].path = "miss"
       /\ tk.caller[a].pc = "done" /\ tk.caller[b].pc = "done"
       /\ tk.caller[a].fetched = TokenOld /\ tk.caller[b].fetched = TokenNew
       /\ tk.cache = TokenOld
       /\ tk.caller[a].ret \in tk.issued /\ tk.caller[b].ret \in tk.issued

\* ------------------------------------------------------------------------
\* Specification SpecRoute: the dispatch decision of wa-process for two
\* events, each under its own deployment
\* ------------------------------------------------------------------------
Decision(route, ctx) == [route |-> route, withImageContext |-> ctx]

\* a decision that also looks at the user text
DispatchDecisionByText(ev, transcribeFn) ==
    IF ev.media.type = "audio"
    THEN IF ~transcribeFn THEN Decision("Drop", FALSE)
         ELSE Decision("RouteToTranscription", FALSE)
    ELSE IF ~Truthy(ev.from) \/ ev.text = <<>> THEN Decision("Drop", FALSE)
    ELSE Decision("RouteToGeneration",
                  ev.media.type = "image" /\ Truthy(ev.media.s3_key))

\* lambda_handler up to the call of the generation backend: an event with
\* audio media is handed to the transcription worker, or dropped when no
\* worker is configured; an event without a sender is dropped; any other
\* event goes to the generation backend, with the image context when it has
\* image media with a key
DispatchDecision(ev, transcribeFn) ==
    IF ev.media.type = "audio"
    THEN IF ~transcribeFn THEN Decision("Drop", FALSE)
         ELSE Decision("RouteToTranscription", FALSE)
    ELSE IF ~Truthy(ev.from) THEN Decision("Drop", FALSE)
    ELSE Decision("RouteToGeneration",
                  ev.media.type = "image" /\ Truthy(ev.media.s3_key))

\* the events wa-process can be invoked with: those of the webhook, with
\* the media stored or not, and one of the callback
RouteEvents ==
    {Normalize(m, stored) : m \in RawMessages, stored \in BOOLEAN}
    \cup {TextEvent(<<"5", "1">>, <<"w", "-", "2">>, <<"s", "i">>)}

RouteInit ==
    /\ dc \in {[pc |-> "received", a |-> e1, b |-> e2, fn_a |-> c1, fn_b |-> c2,
                dec_a |-> None, dec_b |-> None] :
                 e1, e2 \in RouteEvents, c1, c2 \in BOOLEAN}
    /\ jb = None /\ vi = None /\ st = None
    /\ wh = None /\ ws = None /\ tl = None /\ np = None /\ tk = None
    /\ SysOff

RouteDecide ==
    /\ dc.pc = "received"
    /\ dc' = [dc EXCEPT !.pc = "decided",
                        !.dec_a = DispatchDecision(dc.a, dc.fn_a),
                        !.dec_b = DispatchDecision(dc.b, dc.fn_b)]
    /\ UNCHANGED <<jb, vi, st, wh, ws, tl, np, tk>> /\ UNCHANGED sysVars

RouteNext == RouteDecide

SpecRoute == RouteInit /\ [][RouteNext]_vars

HasMedia(ev) == ev.media # NoMedia

\* C26 as stated: two events of the same kind that agree on whether media
\* is present receive the same decision, whatever their other fields and
\* whatever the deployment.
C26_DecisionByKindAndMedia ==
    (dc.pc = "decided" /\ dc.a.type = dc.b.type /\ HasMedia(dc.a) = HasMedia(dc.b))
        => dc.dec_a = dc.dec_b

\* what the decision depends on: the type of the media (none included),
\* whether there is a sender, whether the media has a key
RouteClass(ev) == <<ev.media.type, Truthy(ev.from), Truthy(ev.media.s3_key)>>

\* C26 (amended): the decision is a function of the media type of the
\* event, of whether it has a sender, of whether its media has a blob key,
\* and of whether the transcription worker is configured: two events that
\* agree on these, under deployments that agree on the worker, receive the
\* same decision, whatever their other fields.
C26_DecisionByMediaSenderAndWorker ==
    (dc.pc = "decided" /\ RouteClass(dc.a) = RouteClass(dc.b) /\ dc.fn_a = dc.fn_b)
        => dc.dec_a = dc.dec_b

\* a text event with an empty body and the transcript event of the
\* callback, both routed to the generation backend without image context
C26_Witness ==
    /\ dc.pc = "decided"
    /\ dc.a.raw /\ dc.a.type = "text" /\ dc.a.text = <<>> /\ Truthy(dc.a.from)
    /\ ~dc.b.raw
    /\ dc.fn_a = dc.fn_b
    /\ dc.dec_a = Decision("RouteToGeneration", FALSE) /\ dc.dec_b = dc.dec_a

\* ------------------------------------------------------------------------
\* Single attempts (Spec)
\* ------------------------------------------------------------------------
\* the steps of lambda_handler of wa-process, in the order of the code
RunSteps == <<"entry", "handoff", "agent", "classify", "tts", "send_audio",
              "sentinel", "send_text", "done", "failed">>

StepOf(pc) == CHOOSE i \in 1..Len(RunSteps) : RunSteps[i] = pc

\* the steps of the loop body of wa-transcribe-finish
CbSteps == <<"fetch", "match", "invoke">>

CbStepOf(pc) == CHOOSE i \in 1..Len(CbSteps) : CbSteps[i] = pc

\* C27: no call of the core is attempted twice for one event.  One run of
\* wa-process calls the generation backend, the classifier, text-to-speech
\* and the transcription worker at most once each and makes at most one
\* outbound dispatch, and it only moves forward through its steps, after a
\* failure too; one invocation of the worker starts at most one job; the
\* callback invokes wa-process at most once per record and never goes back
\* to an earlier step or record.
C27_SingleAttempt ==
    /\ [](/\ Len(run.agent_calls) <= 1 /\ run.classify_calls <= 1
          /\ run.tts_calls <= 1 /\ run.handoffs <= 1 /\ Len(run.sends) <= 1)
    /\ [][(run.pc # "idle" /\ run'.pc # "idle" /\ run' # run)
             => StepOf(run'.pc) > StepOf(run.pc)]_vars
    /\ [][Cardinality(jobs') <= Cardinality(jobs) + 1 /\ Len(tq') >= Len(tq) - 1]_vars
    /\ [][Len(cb'.dispatched) > Len(cb.dispatched)
             => /\ Len(cb'.dispatched) = Len(cb.dispatched) + 1
                /\ cb.pc = "invoke" /\ cb'.pc # "invoke"
                /\ Len(cb'.recs) < Len(cb.recs) \/ cb'.pc = "failed"]_vars
    /\ [][(cb.pc \in {"fetch", "match", "invoke"} /\ cb'.pc \in {"fetch", "match", "invoke"}
             /\ cb' # cb)
             => \/ Len(cb'.recs) < Len(cb.recs)
                \/ Len(cb'.recs) = Len(cb.recs) /\ CbStepOf(cb'.pc) > CbStepOf(cb.pc)]_vars

\* a run in which the generation backend failed, the classifier asked for
\* voice and text-to-speech failed: each was called once, and the apology
\* went out as one text dispatch
C27_Witness ==
    /\ cfg.faults /\ run.pc = "done"
    /\ Len(run.agent_calls) = 1 /\ run.agent_out.status = "raised"
    /\ run.classify_calls = 1 /\ run.wants_voice
    /\ run.tts_calls = 1 /\ ~Truthy(run.audio_url)
    /\ Len(run.sends) = 1 /\ run.sends[1].kind = "text"

\* ------------------------------------------------------------------------
\* Image events without media (Spec)
\* ------------------------------------------------------------------------
\* C28: an image event without resolved media is dropped: no
\* generation-backend call and no outbound dispatch.
C28_ImageWithoutMediaDropped ==
    (run.pc # "idle" /\ run.event.type = "image" /\ run.event.media = NoMedia) =>
        (run.agent_calls = <<>> /\ run.sends = <<>>)

\* ------------------------------------------------------------------------
\* The sentinel comparison (Spec)
\* ------------------------------------------------------------------------
\* the run ended without taking the voice path: the decision was text, or
\* text-to-speech gave no audio URL
TextPath == Ended /\ AgentCalled /\ (~run.wants_voice \/ ~Truthy(run.audio_url))

\* the reply holds the sentinel next to other text
ContainsSentinelOnly(reply) ==
    /\ \E i \in 1..Len(reply) : reply[i] = CheckMark
    /\ Strip(reply) # <<CheckMark>>

\* C29: the sentinel comparison is exact after trimming: on the text path
\* a reply that is not the sentinel after trimming, also one that contains
\* the sentinel next to other text, is dispatched as one text with the
\* reply as body; a reply that is the sentinel after trimming, and only
\* such a reply, ends the run without a dispatch.
C29_SentinelExactAfterTrim ==
    TextPath =>
        /\ Strip(run.agent_reply) # <<CheckMark>> =>
               /\ run.sends = <<TextDispatch(run)>>
               /\ run.sends[1].body = run.agent_reply
               /\ run.outcome \in {"text", "raised"}
        /\ Strip(run.agent_reply) = <<CheckMark>> =>
               /\ run.sends = <<>>
               /\ run.outcome = "already_delivered"
        /\ (run.sends = <<>>) = (Strip(run.agent_reply) = <<CheckMark>>)

\* a reply that contains the sentinel and more went out as text
C29_Witness ==
    /\ TextPath /\ run.pc = "done" /\ ~run.wants_voice
    /\ ContainsSentinelOnly(run.agent_reply)
    /\ run.sends = <<TextDispatch(run)>>
    /\ run.outcome = "text"

\* a reply with whitespace around the sentinel suppressed the dispatch
C29_TrimmedWitness ==
    /\ TextPath /\ run.pc = "done"
    /\ run.agent_out.partial # <<CheckMark>>
    /\ Strip(run.agent_reply) = <<CheckMark>>
    /\ run.sends = <<>>

\* ------------------------------------------------------------------------
\* Specification SpecBlock: the context block from wa-process to the
\* vision sub-call
\* ------------------------------------------------------------------------
MaxPieces == 3

\* what a user may write next to an image: words, blanks, line breaks,
\* lines that look like the keys of the block, and the markers themselves
TextPieces ==
    { <<"a">>, <<" ">>, <<"\n">>,
      <<"s", "3", "U", "r", "i", ":", " ", "x">>,
      BLOCK_OPEN, BLOCK_CLOSE }

BlockTexts == {None} \cup {Join(ps) : ps \in ListsUpTo(TextPieces, MaxPieces)}

BlockKeys == { <<"i", "/", "1", ".", "j", "p", "g">>, <<"i", "/", "2", ".", "p", "n", "g">> }

\* an image event with stored media, as wa-process reads it
BlockEvent(text, key) ==
    [from |-> <<"5", "1">>, id |-> <<"w", "-", "1">>, type |-> "image",
     text |-> text, interactive |-> NoInteractive,
     media |-> [type |-> "image", s3_bucket |-> S3_BUCKET, s3_key |-> key],
     raw |-> TRUE]

BlockInit ==
    /\ tl \in {[pc |-> "received", event |-> BlockEvent(t, k),
                user_text |-> None, sent |-> None, ctx |-> NoCtx] :
                 t \in BlockTexts, k \in BlockKeys}
    /\ jb = None /\ vi = None /\ st = None
    /\ wh = None /\ ws = None /\ np = None /\ tk = None /\ dc = None
    /\ SysOff

\* wa-process, steps 1 and 2: the user's text and the text for the backend
BlockAttach ==
    /\ tl.pc = "received"
    /\ LET user_text == _read_text_from_event(tl.event)
       IN  tl' = [tl EXCEPT !.pc = "sent", !.user_text = user_text,
                            !.sent = WithImageContext(tl.event, user_text)]
    /\ UNCHANGED <<jb, vi, st, wh, ws, np, tk, dc>> /\ UNCHANGED sysVars

\* wa-image-analyze reads the block back
BlockParse ==
    /\ tl.pc = "sent"
    /\ tl' = [tl EXCEPT !.pc = "parsed", !.ctx = _parse_image_context(tl.sent)]
    /\ UNCHANGED <<jb, vi, st, wh, ws, np, tk, dc>> /\ UNCHANGED sysVars

BlockNext == BlockAttach \/ BlockParse

SpecBlock == BlockInit /\ [][BlockNext]_vars

\* the blob URI wa-process puts into the block
InjectedUri(ev) == <<"s", "3", ":", "/", "/">> \o MEDIA_BUCKET \o <<"/">> \o ev.media.s3_key

MaxCaptionLen == 2

\* image messages as the channel posts them: msg["image"] carries the media
\* id and, when the user wrote one, the caption
CaptionedMessages ==
    { [type |-> "image", from |-> f, id |-> i, body |-> None,
       interactive |-> NoInteractive, has_media_id |-> TRUE, caption |-> c] :
          f \in MediaFroms, i \in AudioIds,
          c \in {None} \cup TextsUpTo({"a", " "}, MaxCaptionLen) }

\* store_media_if_any for an image: the media record with extra["caption"]
StoredImage(msg) ==
    [type |-> msg.type, s3_bucket |-> StoredMedia(msg).s3_bucket,
     s3_key |-> StoredMedia(msg).s3_key, caption |-> msg.caption]

\* the normalized payload of an image message
NormalizeImage(msg, stored) ==
    [from |-> Normalize(msg, stored).from, id |-> Normalize(msg, stored).id,
     type |-> Normalize(msg, stored).type, text |-> Normalize(msg, stored).text,
     interactive |-> Normalize(msg, stored).interactive,
     media |-> IF msg.has_media_id /\ stored THEN StoredImage(msg)
               ELSE [type |-> "none", s3_bucket |-> None, s3_key |-> None,
                     caption |-> None],
     raw |-> TRUE]

CaptionInit ==
    /\ tl \in {[pc |-> "posted", msg |-> m, stored |-> b, event |-> None,
                user_text |-> None, sent |-> None, ctx |-> NoCtx] :
                 m \in CaptionedMessages, b \in BOOLEAN}
    /\ jb = None /\ vi = None /\ st = None
    /\ wh = None /\ ws = None /\ np = None /\ tk = None /\ dc = None
    /\ SysOff

\* inbound-webhook: the body of `for msg in msgs`
CaptionIngest ==
    /\ tl.pc = "posted"
    /\ tl' = [tl EXCEPT !.pc = "received",
                        !.event = NormalizeImage(tl.msg, tl.stored)]
    /\ UNCHANGED <<jb, vi, st, wh, ws, np, tk, dc>> /\ UNCHANGED sysVars

\* wa-process, steps 1 and 2
CaptionAttach ==
    /\ tl.pc = "received"
    /\ LET user_text == _read_text_from_event(tl.event)
       IN  tl' = [tl EXCEPT !.pc = "sent", !.user_text = user_text,
                            !.sent = WithImageContext(tl.event, user_text)]
    /\ UNCHANGED <<jb, vi, st, wh, ws, np, tk, dc>> /\ UNCHANGED sysVars

\* wa-image-analyze reads the block back
CaptionParse ==
    /\ tl.pc = "sent"
    /\ tl' = [tl EXCEPT !.pc = "parsed", !.ctx = _parse_image_context(tl.sent)]
    /\ UNCHANGED <<jb, vi, st, wh, ws, np, tk, dc>> /\ UNCHANGED sysVars

CaptionNext == CaptionIngest \/ CaptionAttach \/ CaptionParse

SpecCaption == CaptionInit /\ [][CaptionNext]_vars

\* the image was stored and the user wrote a caption
Captioned == tl.stored /\ Truthy(tl.msg.caption) /\ Strip(tl.msg.caption) # <<>>

\* C31: for a stored image message with a caption, the question of the
\* context block sent to the generation backend is that caption, not a
\* default string.
C31_CaptionIsTheQuestion ==
    (tl.pc = "parsed" /\ Captioned) =>
        /\ tl.ctx.question = Strip(tl.msg.caption)
        /\ tl.ctx.question # Hola

\* the recipe of the block itself works for these events: the blob URI
\* comes back whenever the image was stored
CaptionUriRecovered ==
    (tl.pc = "parsed" /\ tl.stored) =>
        tl.ctx.s3Uri = <<"s", "3", ":", "/", "/">> \o MEDIA_BUCKET \o <<"/">> \o tl.event.media.s3_key

\* ------------------------------------------------------------------------
\* Specification SpecRead: wa-process, _read_text_from_event
\* ------------------------------------------------------------------------
MaxReadLen == 2

\* message["interactive"] is null: the webhook copies msg.get("interactive")
\* of a message of type interactive, which is None when the message has no
\* such member
InteractiveNull == [present |-> TRUE, null |-> TRUE]

ReadTitles == {None, <<>>, <<" ">>, <<"B", " ">>}

ReadInteractives ==
    {NoInteractive, InteractiveNull}
    \cup {[present |-> TRUE, button_title |-> b, list_title |-> l] :
             b \in ReadTitles, l \in ReadTitles}

ReadEvents ==
    {[from |-> <<"5", "1">>, id |-> <<"M", "1">>,
      type |-> IF it = NoInteractive THEN "text" ELSE "interactive",
      text |-> t, interactive |-> it, media |-> NoMedia, raw |-> TRUE] :
        t \in {None} \cup TextsUpTo({"a", " "}, MaxReadLen),
        it \in ReadInteractives}

\* the call of _read_text_from_event(event) at step 1 of the handler: it
\* returns a text, or it.get raises on a null interactive member
ReadText(ev) ==
    LET text == Strip(IF Truthy(ev.text) THEN ev.text ELSE <<>>)
    IN  IF text = <<>> /\ ev.interactive = InteractiveNull
        THEN [status |-> "raised", text |-> None]
        ELSE [status |-> "ok", text |-> _read_text_from_event(ev)]

ReadInit ==
    /\ tl \in {[pc |-> "received", event |-> e,
                result |-> [status |-> "none", text |-> None]] : e \in ReadEvents}
    /\ jb = None /\ vi = None /\ st = None
    /\ wh = None /\ ws = None /\ np = None /\ tk = None /\ dc = None
    /\ SysOff

ReadDerive ==
    /\ tl.pc = "received"
    /\ tl' = [tl EXCEPT !.pc = "read", !.result = ReadText(tl.event)]
    /\ UNCHANGED <<jb, vi, st, wh, ws, np, tk, dc>> /\ UNCHANGED sysVars

ReadNext == ReadDerive

SpecRead == ReadInit /\ [][ReadNext]_vars

\* the title of the selected reply: of the button reply when it has one,
\* else of the list reply
SelectedTitle(it) ==
    IF it = NoInteractive \/ it = InteractiveNull THEN <<>>
    ELSE IF Truthy(it.button_title) THEN Strip(it.button_title)
    ELSE IF Truthy(it.list_title) THEN Strip(it.list_title)
    ELSE <<>>

\* the text the derivation is said to give
DerivedText(ev) ==
    LET body == IF Truthy(ev.text) THEN Strip(ev.text) ELSE <<>>
    IN  IF body # <<>> THEN body
        ELSE IF SelectedTitle(ev.interactive) # <<>> THEN SelectedTitle(ev.interactive)
        ELSE Hola

\* C32: the derivation of the user's text is total and never gives an
\* empty text: the trimmed body when that is not empty; otherwise, for an
\* interactive event, the trimmed title of the selected button reply, else
\* of the list reply; otherwise "Hola".
C32_UserTextTotalNeverEmpty ==
    tl.pc = "read" =>
        /\ tl.result.status = "ok"
        /\ tl.result.text # <<>>
        /\ tl.result.text = DerivedText(tl.event)

\* the same for events whose interactive member is absent or an object
ReadObjectsOnly ==
    (tl.pc = "read" /\ tl.event.interactive # InteractiveNull) =>
        /\ tl.result.status = "ok"
        /\ tl.result.text # <<>>
        /\ tl.result.text = DerivedText(tl.event)

\* ------------------------------------------------------------------------
\* Specification SpecSession: the session key on the direct and on the
\* asynchronous path
\* ------------------------------------------------------------------------
MaxSenderLen == 2

\* sender identities of the channel: phone numbers, digits only
SessSenders == TextsUpTo({"5", "1"}, MaxSenderLen) \ {<<>>}
SessIds == TextsUpTo({"M", "-", "."}, MaxSenderLen) \ {<<>>}

SessInit ==
    /\ np \in {[pcv |-> "posted", pct |-> "posted",
                voice |-> [from |-> f1, id |-> m1],
                text |-> TextEvent(f2, <<"w", "-", "9">>, <<"h", "i">>),
                job |-> None, reconciled |-> None,
                s_voice |-> None, s_text |-> None] :
                  f1, f2 \in SessSenders, m1 \in SessIds}
    /\ jb = None /\ vi = None /\ st = None
    /\ wh = None /\ ws = None /\ tl = None /\ tk = None /\ dc = None
    /\ SysOff

\* wa-audio-transcribe names the job of the voice message
SessStartJob ==
    /\ np.pcv = "posted"
    /\ np' = [np EXCEPT !.pcv = "job",
                        !.job = _job_name(np.voice.from, np.voice.id)]
    /\ UNCHANGED <<jb, vi, st, wh, ws, tl, tk, dc>> /\ UNCHANGED sysVars

\* wa-transcribe-finish recovers the ids from the key of the result and
\* builds the text event, or skips the record
SessCallback ==
    /\ np.pcv = "job"
    /\ LET ids == IdsOfKey(OUTPUT_PREFIX \o np.job \o <<".", "j", "s", "o", "n">>)
       IN  np' = IF Truthy(ids[1]) /\ Truthy(ids[2])
                 THEN [np EXCEPT !.pcv = "reconciled",
                                 !.reconciled = TextEvent(ids[1], ids[2], <<"s", "i">>)]
                 ELSE [np EXCEPT !.pcv = "skipped"]
    /\ UNCHANGED <<jb, vi, st, wh, ws, tl, tk, dc>> /\ UNCHANGED sysVars

\* wa-process takes the reconciled event
SessProcessVoice ==
    /\ np.pcv = "reconciled"
    /\ np' = [np EXCEPT !.pcv = "done",
                        !.s_voice = IF Truthy(np.reconciled.from)
                                    THEN SessionId(np.reconciled) ELSE None]
    /\ UNCHANGED <<jb, vi, st, wh, ws, tl, tk, dc>> /\ UNCHANGED sysVars

\* wa-process takes the direct text event
SessProcessText ==
    /\ np.pct = "posted"
    /\ np' = [np EXCEPT !.pct = "done",
                        !.s_text = IF Truthy(np.text.from)
                                   THEN SessionId(np.text) ELSE None]
    /\ UNCHANGED <<jb, vi, st, wh, ws, tl, tk, dc>> /\ UNCHANGED sysVars

SessNext == SessStartJob \/ SessCallback \/ SessProcessVoice \/ SessProcessText

SpecSession == SessInit /\ [][SessNext]_vars

NoParams == [s3Uri |-> None, question |-> None, language |-> None]

\* what a tier may carry, its values marked with the letter of the tier
TierParams(c) ==
    [s3Uri : {None, ToolValue("analyze", c)}, question : {None, <<"q", c>>},
     language : {None, <<"e", c>>}]

\* requestBody: absent, or the JSON text of a flat object
TierBodies ==
    {[form |-> "absent", value |-> NoParams]}
    \cup {[form |-> "json_object", value |-> v] : v \in TierParams("b")}

\* parameters: absent, or a list of name/value pairs
NameValue(name, value) ==
    IF value = None THEN <<>> ELSE <<[name |-> name, value |-> value]>>

TierList(v) ==
    NameValue(<<"s", "3", "U", "r", "i">>, v.s3Uri) \o NameValue(<<"q", "u", "e", "s", "t", "i", "o", "n">>, v.question)
    \o NameValue(<<"l", "a", "n", "g", "u", "a", "g", "e">>, v.language)

TierParameters ==
    {[form |-> "absent", value |-> <<>>]}
    \cup {[form |-> "list", value |-> TierList(v)] : v \in TierParams("p")}

\* inputText: absent, or a text with a context block of key: value lines
TierLine(key, value) ==
    IF value = None THEN <<>> ELSE key \o <<":", " ">> \o value \o <<"\n">>

TierText(v) ==
    <<"h", "i", "\n">> \o BLOCK_OPEN \o <<"\n">>
    \o TierLine(<<"s", "3", "U", "r", "i">>, v.s3Uri) \o TierLine(<<"q", "u", "e", "s", "t", "i", "o", "n">>, v.question)
    \o TierLine(<<"l", "a", "n", "g", "u", "a", "g", "e">>, v.language) \o BLOCK_CLOSE

TierInputTexts == {None} \cup {TierText(v) : v \in TierParams("t")}

TierRequests ==
    [requestBody : TierBodies, parameters : TierParameters, inputText : TierInputTexts]

\* _parse_parameters_list: the names of the list with their values; a value
\* that is no list gives no names
RECURSIVE ParamsOfList(_, _)
ParamsOfList(out, params) ==
    IF params = <<>> THEN out
    ELSE LET p == Head(params)
             o2 == IF p.name = <<"s", "3", "U", "r", "i">> THEN [out EXCEPT !.s3Uri = p.value]
                   ELSE IF p.name = <<"q", "u", "e", "s", "t", "i", "o", "n">> THEN [out EXCEPT !.question = p.value]
                   ELSE IF p.name = <<"l", "a", "n", "g", "u", "a", "g", "e">> THEN [out EXCEPT !.language = p.value]
                   ELSE out
         IN  ParamsOfList(o2, Tail(params))

_parse_parameters_list(params) ==
    IF params.form # "list" THEN NoParams ELSE ParamsOfList(NoParams, params.value)

\* `a or b`
Or(a, b) == IF Truthy(a) THEN a ELSE b

\* wa-image-analyze, lambda_handler for a tool invocation, up to the call of
\* _analyze_core: the status and the arguments of the call
AnalyzeTiers(event) ==
    LET body   == IF event.requestBody.form = "json_object"
                  THEN event.requestBody.value ELSE NoParams
        t1     == body
        params == _parse_parameters_list(event.parameters)
        t2     == IF ~Truthy(t1.s3Uri)
                  THEN [s3Uri |-> Or(t1.s3Uri, params.s3Uri),
                        question |-> Or(t1.question, params.question),
                        language |-> Or(t1.language, params.language)]
                  ELSE t1
        ctx    == _parse_image_context(event.inputText)
        t3     == IF ~Truthy(t2.s3Uri) /\ ctx # NoCtx
                  THEN [s3Uri |-> ctx.s3Uri,
                        question |-> Or(t2.question, ctx.question),
                        language |-> Or(t2.language, ctx.language)]
                  ELSE t2
    IN  IF ~Truthy(t3.s3Uri) THEN [status |-> "400", args |-> NoParams]
        ELSE [status |-> "200", args |-> t3]

TiersInit ==
    /\ tl \in {[pc |-> "requested", event |-> e,
                result |-> [status |-> "none", args |-> NoParams]] :
                 e \in TierRequests}
    /\ jb = None /\ vi = None /\ st = None
    /\ wh = None /\ ws = None /\ np = None /\ tk = None /\ dc = None
    /\ SysOff

TiersAnalyze ==
    /\ tl.pc = "requested"
    /\ tl' = [tl EXCEPT !.pc = "handled", !.result = AnalyzeTiers(tl.event)]
    /\ UNCHANGED <<jb, vi, st, wh, ws, np, tk, dc>> /\ UNCHANGED sysVars

TiersNext == TiersAnalyze

SpecTiers == TiersInit /\ [][TiersNext]_vars

\* the letter that marks the values of a tier, read off a value
TierOf(v) ==
    IF v = None THEN "none" ELSE IF Len(v) > 2 THEN v[Len(v) - 2] ELSE v[Len(v)]

\* the tiers the arguments of the call came from
ArgTiers(args) ==
    {TierOf(args.s3Uri), TierOf(args.question), TierOf(args.language)} \ {"none"}

\* C34: first match wins: the first tier, in the order body, parameter
\* list, inline block, that yields a result supplies s3Uri, question and
\* language; the arguments of one request never come from different tiers.
C34_FirstTierWins ==
    (tl.pc = "handled" /\ tl.result.status = "200") =>
        /\ Cardinality(ArgTiers(tl.result.args)) = 1
        /\ Truthy(tl.event.requestBody.value.s3Uri) =>
               tl.result.args = tl.event.requestBody.value

\* the location of the image alone does come from the first tier that has
\* one
TiersUriFirstMatch ==
    tl.pc = "handled" =>
        LET b == tl.event.requestBody.value.s3Uri
            p == _parse_parameters_list(tl.event.parameters).s3Uri
            t == _parse_image_context(tl.event.inputText).s3Uri
        IN  tl.result.args.s3Uri = Or(b, Or(p, t))

\* a request that carries parameters in the inline block only is served
\* from the block
TiersSingleSource ==
    (tl.pc = "handled" /\ tl.result.status = "200"
       /\ tl.event.requestBody.value = NoParams
       /\ tl.event.parameters.value = <<>>) =>
        Cardinality(ArgTiers(tl.result.args)) = 1

\* a body with an s3Uri supplies all three arguments
TiersBodyWhole ==
    (tl.pc = "handled" /\ Truthy(tl.event.requestBody.value.s3Uri)) =>
        tl.result = [status |-> "200", args |-> tl.event.requestBody.value]

\* ------------------------------------------------------------------------
\* Events without a sender (Spec)
\* ------------------------------------------------------------------------
\* C35: an event without a sender causes no downstream action of the
\* orchestrator, whatever its kind: no generation-backend call, no
\* transcription dispatch, no text-to-speech call, no outbound dispatch.
C35_NoSenderNoAction ==
    (run.pc # "idle" /\ ~Truthy(run.event.from)) =>
        /\ run.agent_calls = <<>> /\ run.handoffs = 0
        /\ run.tts_calls = 0 /\ run.classify_calls = 0 /\ run.sends = <<>>

\* the same for events that carry no audio media
NoSenderNoAudio ==
    (run.pc # "idle" /\ ~Truthy(run.event.from) /\ run.event.media.type # "audio") =>
        /\ run.agent_calls = <<>> /\ run.handoffs = 0
        /\ run.tts_calls = 0 /\ run.classify_calls = 0 /\ run.sends = <<>>
        /\ run.pc \in {"entry", "done"}

\* ------------------------------------------------------------------------
\* The records of one notification (Spec)
\* ------------------------------------------------------------------------
\* a record with a non-empty transcript and a matching job name
Dispatchable(rec) ==
    /\ _extract_transcript(rec.doc) # <<>>
    /\ Truthy(IdsTable[rec.key][1]) /\ Truthy(IdsTable[rec.key][2])

\* the records the handler has not come to when it ends; cb.recs starts
\* with the record it was at
NotReached == IF cb.recs = <<>> THEN <<>> ELSE Tail(cb.recs)

\* C36: the records of one notification are handled independently: when
\* the handler ends, every record with a non-empty transcript and a
\* matching job name was dispatched once, whether or not another record was
\* skipped, could not be fetched or parsed, or could not be dispatched.
C36_RecordsIndependent ==
    /\ [](cb.pc \in {"done", "failed"} =>
             \A i \in 1..Len(NotReached) : ~Dispatchable(NotReached[i]))
    /\ [][cb.pc = "invoke" =>
             /\ Dispatchable(Head(cb.recs))
             /\ Len(cb'.dispatched) = Len(cb.dispatched) + 1]_vars
    /\ [][cb.pc \in {"fetch", "match"} =>
             /\ cb'.dispatched = cb.dispatched
             /\ (Dispatchable(Head(cb.recs)) /\ cb'.pc # "failed")
                   => cb'.pc \in {"match", "invoke"}]_vars

\* the same for handlers that end with their acknowledgement
RecordsAllReachedOnAck ==
    /\ [](cb.pc = "done" => (cb.recs = <<>> /\ cb.result = "ack"))
    /\ [][cb.pc = "invoke" =>
             /\ Dispatchable(Head(cb.recs))
             /\ Len(cb'.dispatched) = Len(cb.dispatched) + 1]_vars
    /\ [][cb.pc \in {"fetch", "match"} =>
             /\ cb'.dispatched = cb.dispatched
             /\ (Dispatchable(Head(cb.recs)) /\ cb'.pc # "failed")
                   => cb'.pc \in {"match", "invoke"}]_vars

\* ------------------------------------------------------------------------
\* Specification SpecIngest: inbound-webhook, lambda_handler for one
\* well-formed POST, message by message
\* ------------------------------------------------------------------------
MaxChangeMsgs == 2
MaxChanges == 2

\* the messages a change may carry
IngestMessages ==
    { m \in RawMessages :
        /\ m.from = <<"5", "1">>
        /\ \/ m.type = "text" /\ m.body = <<"h", "i">>
           \/ m.type = "audio" /\ m.id = <<"w", ".", "2">>
           \/ m.type = "image" }

\* value["messages"] of a change: no messages for a status update
IngestChanges == ListsUpTo(IngestMessages, MaxChangeMsgs)

\* the changes of the entries of a payload, in payload order
IngestPayloads == ListsUpTo(IngestChanges, MaxChanges)

\* the messages of a payload in payload order
RECURSIVE FlatMessages(_)
FlatMessages(changes) ==
    IF changes = <<>> THEN <<>> ELSE Head(changes) \o FlatMessages(Tail(changes))

IngestInit ==
    /\ wh \in {[pc |-> "posted", body |-> b, changes |-> b, attempts |-> <<>>,
                store_errors |-> 0, dispatch_errors |-> 0, status |-> "none"] :
                 b \in IngestPayloads}
    /\ jb = None /\ vi = None /\ st = None
    /\ ws = None /\ tl = None /\ np = None /\ tk = None /\ dc = None
    /\ SysOff

\* `if not msgs: continue`
IngestStatusOnly ==
    /\ wh.pc = "posted" /\ wh.changes # <<>> /\ Head(wh.changes) = <<>>
    /\ wh' = [wh EXCEPT !.changes = Tail(@)]
    /\ UNCHANGED <<jb, vi, st, ws, tl, np, tk, dc>> /\ UNCHANGED sysVars

\* the body of `for msg in msgs` that lets a failure of the invoke leave
\* the handler
IngestMessageAbort ==
    /\ wh.pc = "posted" /\ wh.changes # <<>> /\ Head(wh.changes) # <<>>
    /\ \E stored \in BOOLEAN, invoked \in BOOLEAN :
          LET msg == Head(Head(wh.changes))
              rest == Tail(Head(wh.changes))
          IN  /\ (~msg.has_media_id) => stored
              /\ wh' = [wh EXCEPT
                          !.attempts = Append(@, Normalize(msg, stored)),
                          !.store_errors = @ + (IF stored THEN 0 ELSE 1),
                          !.dispatch_errors = @ + (IF invoked THEN 0 ELSE 1),
                          !.pc = IF invoked THEN "posted" ELSE "failed",
                          !.status = IF invoked THEN @ ELSE "raised",
                          !.changes = IF rest = <<>> THEN Tail(wh.changes)
                                      ELSE <<rest>> \o Tail(wh.changes)]
    /\ UNCHANGED <<jb, vi, st, ws, tl, np, tk, dc>> /\ UNCHANGED sysVars

\* the body of `for msg in msgs`: the media store in its try/except, the
\* normalized payload, dispatch_to_processor with its try/except
IngestMessage ==
    /\ wh.pc = "posted" /\ wh.changes # <<>> /\ Head(wh.changes) # <<>>
    /\ \E stored \in BOOLEAN, invoked \in BOOLEAN :
          LET msg == Head(Head(wh.changes))
              rest == Tail(Head(wh.changes))
          IN  /\ (~msg.has_media_id) => stored
              /\ wh' = [wh EXCEPT
                          !.attempts = Append(@, Normalize(msg, stored)),
                          !.store_errors = @ + (IF stored THEN 0 ELSE 1),
                          !.dispatch_errors = @ + (IF invoked THEN 0 ELSE 1),
                          !.changes = IF rest = <<>> THEN Tail(wh.changes)
                                      ELSE <<rest>> \o Tail(wh.changes)]
    /\ UNCHANGED <<jb, vi, st, ws, tl, np, tk, dc>> /\ UNCHANGED sysVars

\* return {"statusCode": 200, "body": "ok"}
IngestAck ==
    /\ wh.pc = "posted" /\ wh.changes = <<>>
    /\ wh' = [wh EXCEPT !.pc = "acked", !.status = "200"]
    /\ UNCHANGED <<jb, vi, st, ws, tl, np, tk, dc>> /\ UNCHANGED sysVars

IngestNext == IngestStatusOnly \/ IngestMessage \/ IngestAck

SpecIngest == IngestInit /\ [][IngestNext]_vars

\* attempt i is for message i of the payload
AttemptFor(a, m) == a.id = m.id /\ a.from = m.from /\ a.type = m.type

\* C37: for a well-formed POST the webhook attempts one dispatch per
\* message, in payload order, whether or not the media store or the
\* dispatch of an earlier message failed; changes without messages cause
\* no dispatch; the response is the acknowledgement.
C37_OneDispatchPerMessageInOrder ==
    LET msgs == FlatMessages(wh.body)
    IN  /\ wh.pc \in {"posted", "acked"}
        /\ Len(wh.attempts) <= Len(msgs)
        /\ \A i \in 1..Len(wh.attempts) : AttemptFor(wh.attempts[i], msgs[i])
        /\ Len(wh.attempts) + Len(FlatMessages(wh.changes)) = Len(msgs)
        /\ wh.pc = "acked" =>
               /\ wh.status = "200"
               /\ Len(wh.attempts) = Len(msgs)

\* the first message lost its media and its dispatch, a status update
\* followed, and the second message was dispatched
C37_Witness ==
    /\ wh.pc = "acked" /\ wh.status = "200"
    /\ Len(wh.body) = 2 /\ Len(wh.body[1]) = 2 /\ wh.body[2] = <<>>
    /\ wh.store_errors >= 1 /\ wh.dispatch_errors >= 1
    /\ Len(wh.attempts) = 2
    /\ wh.attempts[1].type = "audio" /\ wh.attempts[1].media = NoMedia
    /\ wh.attempts[2].type = "text"

\* ------------------------------------------------------------------------
\* Specification SpecImage: wa-image-generate, one tool invocation
\* ------------------------------------------------------------------------
UNKNOWN == <<"u", "n", "k", "n", "o", "w", "n">>

\* userId as a request may carry it
ImageUserIds == {None, UNKNOWN, <<"N", "U", "L", "L">>, <<"5", "1">>}

\* requestBody: a flat object, or the nested object with properties
ImageBodies ==
    [format : {"flat", "nested"}, prompt : {None, <<"p", "p", "p">>},
     userId : ImageUserIds]

\* parameters: absent, or a list with a prompt and perhaps a userId
ImageParameters ==
    {[form |-> "absent", prompt |-> None, userId |-> None]}
    \cup {[form |-> "list", prompt |-> <<"q", "q", "q">>, userId |-> u] :
             u \in {None, <<"5", "2">>}}

\* sessionAttributes: null, or an object with or without userPhone
ImageSessions ==
    {[form |-> "null", userPhone |-> None]}
    \cup {[form |-> "object", userPhone |-> u] : u \in {None, <<"5", "9">>}}

ImageRequests ==
    [body : ImageBodies, parameters : ImageParameters, session : ImageSessions]

ImageInit ==
    /\ tl \in {[pc |-> "requested", event |-> e, prompt |-> None, user_id |-> None,
                generated |-> FALSE, stored |-> FALSE, send_calls |-> 0,
                sent |-> <<>>, result |-> "none"] : e \in ImageRequests}
    /\ jb = None /\ vi = None /\ st = None
    /\ wh = None /\ ws = None /\ np = None /\ tk = None /\ dc = None
    /\ SysOff

\* the handler up to the call of _generate_image_core: prompt and user_id
\* from the body, else from the parameter list; user_id from the session
\* attributes when the request has none
ImageExtract ==
    /\ tl.pc = "requested"
    /\ LET b  == tl.event.body
           ps == tl.event.parameters
           u1 == IF b.format = "flat" /\ b.userId = None THEN UNKNOWN ELSE b.userId
           p2 == IF ~Truthy(b.prompt) /\ ps.form = "list" THEN ps.prompt ELSE b.prompt
           u2 == IF ~Truthy(b.prompt) /\ ps.form = "list" /\ ps.userId # None
                 THEN ps.userId ELSE u1
           ask == ~Truthy(u2) \/ u2 = UNKNOWN
           u3 == IF ask /\ Truthy(tl.event.session.userPhone)
                 THEN tl.event.session.userPhone ELSE u2
       IN  tl' = IF ask /\ tl.event.session.form = "null"
                 THEN [tl EXCEPT !.pc = "returned", !.result = "error_500"]
                 ELSE IF ~Truthy(p2)
                 THEN [tl EXCEPT !.pc = "returned", !.user_id = u3,
                                 !.result = "error_400"]
                 ELSE [tl EXCEPT !.pc = "extracted", !.prompt = p2, !.user_id = u3]
    /\ UNCHANGED <<jb, vi, st, wh, ws, np, tk, dc>> /\ UNCHANGED sysVars

\* _generate_image_core: the model call, then the store
ImageGenerate ==
    /\ tl.pc = "extracted"
    /\ \E o \in {"ok", "generate_failed", "store_failed"} :
          tl' = IF o = "ok"
                THEN [tl EXCEPT !.pc = "generated", !.generated = TRUE, !.stored = TRUE]
                ELSE [tl EXCEPT !.pc = "returned", !.result = "error_500",
                                !.generated = (o = "store_failed")]
    /\ UNCHANGED <<jb, vi, st, wh, ws, np, tk, dc>> /\ UNCHANGED sysVars

\* str(user_id).lower() not in ["unknown", "none", "null", ""]
KnownRecipient(user_id) ==
    /\ Truthy(user_id)
    /\ LowerText(user_id) \notin {UNKNOWN, <<"n", "o", "n", "e">>, <<"n", "u", "l", "l">>}

\* a delivery step that sends to whatever user_id holds
ImageDeliverUnchecked ==
    /\ tl.pc = "generated"
    /\ \E o \in {"ok", "raise"} :
          tl' = IF tl.event.session.form = "null"
                THEN [tl EXCEPT !.pc = "returned", !.result = "error_500"]
                ELSE [tl EXCEPT !.pc = "returned",
                                !.send_calls = @ + 1,
                                !.sent = IF o = "ok"
                                         THEN Append(@, [to |-> tl.user_id, kind |-> "image"])
                                         ELSE @,
                                !.result = IF o = "ok" THEN "minimal" ELSE "full"]
    /\ UNCHANGED <<jb, vi, st, wh, ws, np, tk, dc>> /\ UNCHANGED sysVars

\* the handler after the image was generated: for a known recipient the
\* caption and the invocation of wa-send in its try/except, then the
\* minimal result; in every other case the full result
ImageDeliver ==
    /\ tl.pc = "generated"
    /\ \E o \in {"ok", "raise"} :
          tl' = IF ~KnownRecipient(tl.user_id)
                THEN [tl EXCEPT !.pc = "returned", !.result = "full"]
                ELSE IF tl.event.session.form = "null"
                THEN [tl EXCEPT !.pc = "returned", !.result = "error_500"]
                ELSE [tl EXCEPT !.pc = "returned",
                                !.send_calls = @ + 1,
                                !.sent = IF o = "ok"
                                         THEN Append(@, [to |-> tl.user_id, kind |-> "image"])
                                         ELSE @,
                                !.result = IF o = "ok" THEN "minimal" ELSE "full"]
    /\ UNCHANGED <<jb, vi, st, wh, ws, np, tk, dc>> /\ UNCHANGED sysVars

ImageNext == ImageExtract \/ ImageGenerate \/ ImageDeliver

SpecImage == ImageInit /\ [][ImageNext]_vars

\* the identities a request names
NamedRecipients(e) ==
    {e.body.userId, e.parameters.userId, e.session.userPhone}
    \ {None, UNKNOWN, <<"N", "U", "L", "L">>}

\* C38: in tool mode the worker dispatches an image send at most once per
\* invocation, only after the image was generated and stored and only to a
\* recipient the request or the session attributes name; it returns the
\* minimal result exactly when the dispatch was issued, and the full result
\* or an error only when nothing was dispatched.
C38_ImageSentAtMostOnce ==
    /\ tl.send_calls <= 1 /\ Len(tl.sent) <= tl.send_calls
    /\ tl.send_calls > 0 =>
          /\ tl.generated /\ tl.stored
          /\ tl.user_id \in NamedRecipients(tl.event)
    /\ \A i \in 1..Len(tl.sent) : tl.sent[i].to \in NamedRecipients(tl.event)
    /\ tl.pc = "returned" =>
          /\ (tl.result = "minimal") = (tl.sent # <<>>)
          /\ tl.result \in {"minimal", "full", "error_400", "error_500"}
    /\ tl.pc # "returned" => tl.sent = <<>> /\ tl.result = "none"

\* the recipient came from the session attributes and the minimal result
\* was returned
C38_Witness ==
    /\ tl.pc = "returned" /\ tl.result = "minimal"
    /\ tl.event.body.userId = UNKNOWN
    /\ tl.sent = <<[to |-> <<"5", "9">>, kind |-> "image"]>>
    /\ tl.generated /\ tl.stored

====
